---- MODULE Spec2Model ----
(***************************************************************************)
(* A model of the Pi-Track capture-and-distribution pipeline:               *)
(*   - the live PacketStore (ring of recent packets, counters),            *)
(*   - the WebSocket fan-out (client registry, per-client send queues),    *)
(*   - the SQLite persistence layer (batch queue, background writer).      *)
(* Each component is exercised by its own specification (SpecStore,        *)
(* SpecWS, SpecDB); the variables of the other components stay at their    *)
(* initial values.                                                         *)
(***************************************************************************)
EXTENDS Integers, Sequences, FiniteSets, TLC

\* ------------------------------------------------------------------ bounds
\* Largest ring capacity (-max-packets) tried; 0 is included.
MaxRing == 2
\* Number of AddPacket calls made on the store in SpecStore.
MaxAdds == 3
\* Largest frame length (Packet.Length) tried.
MaxLen == 1
\* Frames the capture loop reads in SpecWS.
MaxFrames == 2
\* Firings of the 1-second stats ticker in SpecWS.
MaxTicks == 1
\* Capacity of client.send; make(chan []byte, 256) in the source, scaled down.
SendCap == 1
\* Frames the capture loop reads in SpecDB.
MaxQueued == 3
\* d.batchSize, the flush threshold; 100 in the source, scaled down.
BatchSize == 2
\* Database errors injected (a failed Begin, Exec or Commit on an open handle).
MaxFaults == 1
\* Calls of Database.Truncate.
MaxTruncates == 1
MaxRows == 2
DefaultLimit == 1
MaxLimit == 2
MaxResolves == 2
\* AddPacket calls made in SpecStats.
MaxStatAdds == 2
\* AddPacket calls made in SpecRate.
MaxRateAdds == 3
\* Largest frame length tried there.
MaxStatLen == 2
\* Largest capture timestamp (Packet.Timestamp) tried.
MaxStamp == 2
\* Calls of GetStats and of GetConnections.
MaxGets == 2
\* Length of the top-talker list; 10 in the source, scaled down.
TopTalkers == 1
\* Length of the connection list; 100 in the source, scaled down.
TopConnections == 1
\* GET /api/database requests made in SpecBoot.
MaxApiCalls == 1
\* refreshes of the process tracker; sockets per snapshot; ports; PIDs
MaxRefresh == 2
MaxConns == 2
MaxPort == 2
MaxPid == 1
\* The rate window, in seconds: now.Add(-5 * time.Second).
WindowSecs == 5

\* ------------------------------------------------------------------ state
VARIABLES
    \* PacketStore (src/unnamed/part_000:773-786)
    maxPackets,     \* ps.maxPackets
    packets,        \* ps.packets: the ring, a sequence of Packet records
    packetID,       \* ps.packetID
    stats,          \* ps.stats: [TotalPackets, TotalBytes]
    mu,             \* ps.mu: [writer |-> task or "none", readers |-> set of tasks]
    panicked,       \* a goroutine panicked: the process is gone
    \* callers of the store API
    spc,            \* per task: "idle" | "waiting" | "locked" | "rlocked"
    sarg,           \* per adder task: the Packet passed to AddPacket
    lastGet,        \* the slice returned by the last GetPackets call
    lastLimit,      \* the limit that call was given
    \* history
    nCalls,         \* AddPacket calls started
    lockOrder,      \* frames of AddPacket calls in the order they got ps.mu
    stored,         \* every packet appended to the ring, in append order
    \* the capture task (startCapture, src/unnamed/part_000:1191-1202)
    dbEnabled,      \* db != nil
    capPc,          \* "parse" | "add" | "queue" | "bcast" | "bloop"
    capP,           \* p, the Packet parsePacket returned
    nFrames,        \* frames read from the packet source
    srcFrames,      \* frames the packet source yields in this run
    \* WebSocket fan-out (PacketStore.clients, wsClient, the /ws handler)
    clients,        \* ps.clients: the registered clients
    cmuReaders,     \* tasks holding ps.clientsMu.RLock
    send,           \* per client: client.send, a buffered channel
    sendClosed,     \* per client: close(client.send) was called
    connOK,         \* per client: the connection still carries reads and writes
    hpc,            \* per client: position of its /ws handler goroutine
    wpc,            \* per client: position of its writer goroutine
    whand,          \* per client: msg, the message its writer holds
    written,        \* per client: messages written to its connection
    bpc,            \* per broadcasting task: "idle" | "loop"
    brem,           \* per broadcasting task: clients its range loop has left
    bmsg,           \* per broadcasting task: jsonData, the message it sends
    nTicks,         \* stats ticker firings
    \* history of the fan-out
    blog,           \* the messages broadcast, in the order of the Broadcast calls
    \* Database (src/process.go:120-129)
    batchQueue,     \* d.batchQueue: frames of the packets awaiting a flush
    insertMu,       \* d.insertMu: "free" or the task holding it
    flushChan,      \* d.flushChan: tokens in the 1-slot channel
    stopClosed,     \* close(d.stopChan) was called
    tickerStopped,  \* d.flushTicker.Stop() was called
    stmtClosed,     \* d.insertStmt.Close() was called
    dbClosed,       \* d.db.Close() was called
    rows,           \* the packets table: frames of the committed rows, by rowid
    dbLock,         \* SQLite's write lock: "none" | "writer" | "trunc"
    fpc,            \* position of the backgroundFlush goroutine
    fWake,          \* the select case backgroundFlush last woke on
    fPackets,       \* Flush's local copy `packets`, the part not yet executed
    txRows,         \* rows inserted by Flush's open transaction
    stmtOK,         \* tx.Stmt(d.insertStmt) gave a usable statement
    cpc,            \* position of the caller of Close
    tpc,            \* position of the caller of Truncate
    nTrunc,         \* Truncate calls made
    \* history of the database
    nFaults,        \* database errors injected so far
    flushed,        \* frames whose Flush call has returned
    execFailed,     \* frames whose INSERT returned an error
    txFault,        \* frames of the batches whose Begin or Commit failed
    deleted,        \* frames of the rows a Truncate deleted
    \* ---- the packets table as the history API reads it
    table,          \* the rows of the packets table, in rowid order
    queuedOf,       \* for each row inserted: its id, the Packet queued
    qpc,            \* position of the current QueryPackets call
    qreq,           \* the raw parameters of the /api/history request
    qargs,          \* the arguments of the current QueryPackets call
    qtotal,         \* its local `total`
    qpackets,       \* its local `packets`
    tCount,         \* the table as the COUNT(*) statement saw it
    tSelect,        \* the table as the SELECT statement saw it
    \* ---- the IP-info cache, for one IP address
    rip,            \* the IP address the packets carry
    cache,          \* ipInfoCache's entry for rip
    rpc,            \* per resolveIPInfo call: its position
    retry,          \* per call: it was started after a failed resolution
    dpc,            \* per call: position of its reverse-DNS goroutine
    dloc,           \* per call: that goroutine's local `existing`
    gpc,            \* per call: position of its GeoIP goroutine
    gloc,           \* per call: that goroutine's local `existing`
    nGeoRequests,   \* GeoIP requests issued so far
    dnsOK,          \* reverse-DNS goroutines that got a name
    geoOK,          \* GeoIP goroutines that got status "success"
    \* ---- history of the capture loop
    bcastArg,       \* the Packet passed to each store.Broadcast("packet", p)
    truncHist,      \* the last Truncate call: frames queued before it, its result
    \* ---- the process tracker (src/process.go:14-19)
    portPidMap,     \* pt.portPidMap: port -> pid
    pidNameMap,     \* pt.pidNameMap: pid -> process name
    ptMu,           \* pt.mu: [writer, readers]
    ptPc,           \* position of the update loop
    ptNew,          \* update's local newPortPidMap
    ptSnap,         \* the snapshot the port map in use was built from
    nRefresh,       \* calls of update so far
    ptRpc,          \* position of the caller of GetProcessName
    ptGot,          \* its last call: the port, the name returned, the map read
    \* ---- the store's statistics (src/unnamed/part_000:773-786)
    now,            \* the wall clock, in seconds
    countryStats,   \* ps.stats.CountryStats
    ipStats,        \* ps.ipStats: IP -> [packets, bytes]
    connections,    \* ps.connections: connKey -> Connection
    packetsWindow,  \* ps.packetsWindow
    bytesWindow,    \* ps.bytesWindow
    rates,          \* ps.stats.PacketsPerSec, BytesPerSec as <<num, den>>
    statCache,      \* ipInfoCache: IP -> IPInfo
    gotStats,       \* what each GetStats call returned, and the state it read
    protocolStats,  \* ps.stats.ProtocolStats: the contents of the map
    marshal,        \* per value GetStats returned: the json.Marshal of it
    gotConns,       \* what each GetConnections call returned, likewise
    \* history of the statistics
    added,          \* the packets added, each with the time of its AddPacket
    rateFrom,       \* the window samples the reported rates were computed from
    \* ---- parsePacket's application detection, for one frame
    aSrc,           \* p.SrcPort
    aDst,           \* p.DstPort
    aDns,           \* the frame has a DNS layer
    aApp,           \* p.Application
    apc,            \* "frame" | "parsed"
    \* ---- startup (main, src/unnamed/part_000:1330-1631)
    bootPath,       \* *dbPath: "" or the path given with -db
    bootFail,       \* the step of NewDatabase that fails in this run, or 0
    bootPc,         \* position of main
    apiAnswers      \* the answers given to GET /api/database

storeVars == <<maxPackets, packets, packetID, stats, mu, panicked, spc, sarg,
               lastGet, lastLimit, nCalls, lockOrder, stored>>

capVars == <<dbEnabled, capPc, capP, nFrames, srcFrames>>

dbVars == <<batchQueue, insertMu, flushChan, stopClosed, tickerStopped,
            stmtClosed, dbClosed, rows, dbLock, fpc, fWake, fPackets, txRows,
            stmtOK, cpc, tpc, nTrunc, nFaults, flushed, execFailed, txFault,
            deleted>>

wsVars == <<clients, cmuReaders, send, sendClosed, connOK, hpc, wpc, whand,
            written, bpc, brem, bmsg, nTicks, blog>>

qVars == <<table, queuedOf, qpc, qreq, qargs, qtotal, qpackets, tCount,
           tSelect>>

resVars == <<rip, cache, rpc, retry, dpc, dloc, gpc, gloc, nGeoRequests,
             dnsOK, geoOK>>

ptVars == <<portPidMap, pidNameMap, ptMu, ptPc, ptNew, ptSnap, nRefresh,
           ptRpc, ptGot>>

capHist == <<bcastArg, truncHist, ptVars>>

statVars == <<now, countryStats, ipStats, connections, packetsWindow,
              bytesWindow, rates, statCache, gotStats, gotConns, added,
              rateFrom, protocolStats, marshal>>

\* What neither the history API nor the resolver touches.
appVars == <<aSrc, aDst, aDns, aApp, apc>>

bootVars == <<bootPath, bootFail, bootPc, apiAnswers>>

sideVars == <<capHist, statVars, appVars, bootVars>>

extVars == <<qVars, resVars, sideVars>>

vars == <<storeVars, capVars, wsVars, dbVars, extVars>>

\* ---------------------------------------------------------------- helpers
RECURSIVE SumLength(_)
SumLength(s) == IF s = <<>> THEN 0 ELSE s[1].Length + SumLength(Tail(s))

Ids(s) == [i \in DOMAIN s |-> s[i].ID]

Frames(s) == [i \in DOMAIN s |-> s[i].frame]

StrictlyIncreasing(s) == \A i, j \in DOMAIN s : i < j => s[i] < s[j]

Range(s) == {s[i] : i \in DOMAIN s}

NoDuplicates(s) == \A i, j \in DOMAIN s : i # j => s[i] # s[j]

\* s can be obtained from t by deleting elements.
RECURSIVE IsSubseq(_, _)
IsSubseq(s, t) ==
    IF s = <<>> THEN TRUE
    ELSE IF t = <<>> THEN FALSE
    ELSE IF Head(s) = Head(t) THEN IsSubseq(Tail(s), Tail(t))
    ELSE IsSubseq(s, Tail(t))

RECURSIVE SelectSeqBy(_, _)
SelectSeqBy(s, src) ==
    IF s = <<>> THEN <<>>
    ELSE IF Head(s).src = src THEN <<Head(s)>> \o SelectSeqBy(Tail(s), src)
    ELSE SelectSeqBy(Tail(s), src)

\* A Packet as parsePacket returns it: ID is the zero value; `frame` stands for
\* the captured frame's content (timestamp, addresses, ...).
NewPacket(f, len) == [ID |-> 0, frame |-> f, Length |-> len]

\* ------------------------------------------------------------ PacketStore
Adders == {"a1", "a2"}
Readers == {"r1"}
StoreTasks == Adders \cup Readers

\* ps.packetID++ ; p.ID = ps.packetID
NextID_noinc(id) == id
NextID(id) == id + 1

\* if len(ps.packets) >= ps.maxPackets { ps.packets = ps.packets[1:] }
\* ps.packets[1:] of an empty slice is a run-time panic.
RingPanics(pk, max) == Len(pk) >= max /\ Len(pk) = 0

RingAppend_noevict(pk, p, max) == Append(pk, p)
RingAppend(pk, p, max) ==
    IF Len(pk) >= max THEN Append(Tail(pk), p) ELSE Append(pk, p)

\* ps.stats.TotalPackets++ ; ps.stats.TotalBytes += int64(p.Length)
AddStats_assign(st, p) ==
    [st EXCEPT !.TotalPackets = @ + 1, !.TotalBytes = p.Length]
AddStats(st, p) ==
    [st EXCEPT !.TotalPackets = @ + 1, !.TotalBytes = @ + p.Length]

\* GetPackets(limit): the last `limit` packets of the ring, all of them when
\* limit <= 0 or limit > len.
GetPackets(pk, limit) ==
    LET lim == IF limit <= 0 \/ limit > Len(pk) THEN Len(pk) ELSE limit
        start == IF Len(pk) - lim < 0 THEN 0 ELSE Len(pk) - lim
    IN  SubSeq(pk, start + 1, start + lim)

MuFree == mu.writer = "none" /\ mu.readers = {}

\* A caller calls AddPacket(p) and waits for ps.mu.
AddPacketCall(t) ==
    /\ ~panicked
    /\ spc[t] = "idle"
    /\ nCalls < MaxAdds
    /\ \E len \in 0..MaxLen :
          sarg' = [sarg EXCEPT ![t] = NewPacket(nCalls + 1, len)]
    /\ nCalls' = nCalls + 1
    /\ spc' = [spc EXCEPT ![t] = "waiting"]
    /\ UNCHANGED <<maxPackets, packets, packetID, stats, mu, panicked,
                   lastGet, lastLimit, lockOrder, stored>>
    /\ UNCHANGED <<capVars, wsVars, dbVars>>
    /\ UNCHANGED extVars

\* ps.mu.Lock() succeeds.
AddPacketLock(t) ==
    /\ ~panicked
    /\ spc[t] = "waiting"
    /\ MuFree
    /\ lockOrder' = Append(lockOrder, sarg[t].frame)
    /\ mu' = [mu EXCEPT !.writer = t]
    /\ spc' = [spc EXCEPT ![t] = "locked"]
    /\ UNCHANGED <<maxPackets, packets, packetID, stats, panicked, sarg,
                   lastGet, lastLimit, nCalls, stored>>
    /\ UNCHANGED <<capVars, wsVars, dbVars>>
    /\ UNCHANGED extVars

\* What the body of AddPacket(arg) does to the store; arg is passed by value,
\* so the id is set on the store's copy only.
StoreAdd(arg) ==
    LET id == NextID(packetID)
        p  == [arg EXCEPT !.ID = id]
    IN  /\ packetID' = id
        /\ IF RingPanics(packets, maxPackets)
           THEN /\ panicked' = TRUE
                /\ UNCHANGED <<packets, stats, stored>>
           ELSE /\ packets' = RingAppend(packets, p, maxPackets)
                /\ stats' = AddStats(stats, p)
                /\ stored' = Append(stored, p)
                /\ UNCHANGED panicked

\* The body of AddPacket, run under ps.mu, and the deferred Unlock.
AddPacketBody(t) ==
    /\ ~panicked
    /\ spc[t] = "locked"
    /\ mu.writer = t
    /\ StoreAdd(sarg[t])
    /\ mu' = [mu EXCEPT !.writer = "none"]
    /\ spc' = [spc EXCEPT ![t] = "idle"]
    /\ UNCHANGED <<maxPackets, sarg, lastGet, lastLimit, nCalls, lockOrder>>
    /\ UNCHANGED <<capVars, wsVars, dbVars>>
    /\ UNCHANGED extVars

\* GetPackets: ps.mu.RLock()
GetPacketsLock(t) ==
    /\ ~panicked
    /\ spc[t] = "idle"
    /\ mu.writer = "none"
    /\ mu' = [mu EXCEPT !.readers = @ \cup {t}]
    /\ spc' = [spc EXCEPT ![t] = "rlocked"]
    /\ UNCHANGED <<maxPackets, packets, packetID, stats, panicked, sarg,
                   lastGet, lastLimit, nCalls, lockOrder, stored>>
    /\ UNCHANGED <<capVars, wsVars, dbVars>>
    /\ UNCHANGED extVars

\* GetPackets: the copy and the deferred RUnlock.
GetPacketsBody(t) ==
    /\ ~panicked
    /\ spc[t] = "rlocked"
    /\ \E limit \in 0..(MaxRing + 1) :
          /\ lastGet' = GetPackets(packets, limit)
          /\ lastLimit' = limit
    /\ mu' = [mu EXCEPT !.readers = @ \ {t}]
    /\ spc' = [spc EXCEPT ![t] = "idle"]
    /\ UNCHANGED <<maxPackets, packets, packetID, stats, panicked, sarg,
                   nCalls, lockOrder, stored>>
    /\ UNCHANGED <<capVars, wsVars, dbVars>>
    /\ UNCHANGED extVars

\* NewPacketStore(maxPackets)
InitStoreState ==
    /\ packets = <<>>
    /\ packetID = 0
    /\ stats = [TotalPackets |-> 0, TotalBytes |-> 0]
    /\ mu = [writer |-> "none", readers |-> {}]
    /\ panicked = FALSE
    /\ spc = [t \in StoreTasks |-> "idle"]
    /\ sarg = [t \in Adders |-> NewPacket(0, 0)]
    /\ lastGet = <<>>
    /\ lastLimit = 0
    /\ nCalls = 0
    /\ lockOrder = <<>>
    /\ stored = <<>>

\* ------------------------------------------------------- process tracker
\* A socket of the snapshot psnet.Connections("inet") returns.
Socket(port, pid) == [Port |-> port, Pid |-> pid]
Sockets == {Socket(port, pid) : port \in 0..MaxPort, pid \in 0..MaxPid}

\* The snapshots: every list of at most MaxConns sockets.
Snapshots == UNION {[1..n -> Sockets] : n \in 0..MaxConns}

\* The names a process with a given PID can have when it is looked up.
ProcNames == {"sshd", "nginx"}

\* newPortPidMap := make(...); for _, conn := range conns {
\*     if conn.Laddr.Port > 0 { newPortPidMap[conn.Laddr.Port] = conn.Pid } }
RECURSIVE BuildPortMap_keepOld(_, _)
BuildPortMap_keepOld(old, conns) ==
    IF conns = <<>> THEN old
    ELSE LET c    == conns[Len(conns)]
             rest == BuildPortMap_keepOld(old, SubSeq(conns, 1, Len(conns) - 1))
         IN  IF c.Port > 0
             THEN [q \in DOMAIN rest \cup {c.Port} |->
                      IF q = c.Port THEN c.Pid ELSE rest[q]]
             ELSE rest
RECURSIVE BuildPortMap(_, _)
BuildPortMap(old, conns) ==
    IF conns = <<>> THEN <<>>
    ELSE LET c    == conns[Len(conns)]
             rest == BuildPortMap(old, SubSeq(conns, 1, Len(conns) - 1))
         IN  IF c.Port > 0
             THEN [q \in DOMAIN rest \cup {c.Port} |->
                      IF q = c.Port THEN c.Pid ELSE rest[q]]
             ELSE rest

\* pidsToResolve[conn.Pid] = true for each socket with Port > 0
PidsToResolve(conns) ==
    {conns[i].Pid : i \in {j \in DOMAIN conns : conns[j].Port > 0}}

\* getProcessName(pid): an error for pid 0 and for a process that is gone,
\* else the name of the process that now has the PID.
NameResults(pid) == IF pid = 0 THEN {""} ELSE ProcNames \cup {""}

\* for pid := range pidsToResolve { if _, exists := pt.pidNameMap[pid]; !exists
\*     { name, err := getProcessName(pid); if err == nil { insert } } }
\* given the outcome of every lookup ("" for an error).
ResolveNames(names, pids, found) ==
    LET new == {pid \in pids : pid \notin DOMAIN names /\ found[pid] # ""}
    IN  [pid \in DOMAIN names \cup new |->
            IF pid \in DOMAIN names THEN names[pid] ELSE found[pid]]

\* pid, ok := pt.portPidMap[uint32(port)]; name, ok := pt.pidNameMap[pid]
LookupName(ports, names, port) ==
    IF port \notin DOMAIN ports THEN ""
    ELSE IF ports[port] \notin DOMAIN names THEN ""
    ELSE names[ports[port]]

InitPtState ==
    /\ portPidMap = <<>>
    /\ pidNameMap = <<>>
    /\ ptMu = [writer |-> FALSE, readers |-> 0]
    /\ ptPc = "idle"
    /\ ptNew = <<>>
    /\ ptSnap = [taken |-> FALSE, conns |-> <<>>]
    /\ nRefresh = 0
    /\ ptRpc = "idle"
    /\ ptGot = [port |-> 0, name |-> "", read |-> <<>>]

PtFrame ==
    UNCHANGED <<storeVars, capVars, wsVars, dbVars, qVars, resVars, bcastArg,
                truncHist, statVars, appVars, bootVars>>

\* update: conns, err := psnet.Connections("inet"); on error log and return;
\* else build newPortPidMap and pidsToResolve, without the lock.
PtScan ==
    /\ ptPc = "idle"
    /\ nRefresh < MaxRefresh
    /\ nRefresh' = nRefresh + 1
    /\ \/ UNCHANGED <<ptPc, ptNew>>
       \/ \E conns \in Snapshots :
             /\ ptNew' = [conns |-> conns,
                          ports |-> BuildPortMap(portPidMap, conns)]
             /\ ptPc' = "lock"
    /\ UNCHANGED <<portPidMap, pidNameMap, ptMu, ptSnap, ptRpc, ptGot>>
    /\ PtFrame

\* update: pt.mu.Lock(); pt.portPidMap = newPortPidMap
PtSwap ==
    /\ ptPc = "lock"
    /\ ~ptMu.writer /\ ptMu.readers = 0
    /\ ptMu' = [ptMu EXCEPT !.writer = TRUE]
    /\ portPidMap' = ptNew.ports
    /\ ptSnap' = [taken |-> TRUE, conns |-> ptNew.conns]
    /\ ptPc' = "resolve"
    /\ UNCHANGED <<pidNameMap, ptNew, nRefresh, ptRpc, ptGot>>
    /\ PtFrame

\* update: the loop over pidsToResolve, then the deferred Unlock.
PtResolve ==
    /\ ptPc = "resolve"
    /\ \E found \in [PidsToResolve(ptNew.conns) ->
                        UNION {NameResults(pid) : pid \in 0..MaxPid}] :
          /\ \A pid \in DOMAIN found : found[pid] \in NameResults(pid)
          /\ pidNameMap' = ResolveNames(pidNameMap,
                                        PidsToResolve(ptNew.conns), found)
    /\ ptMu' = [ptMu EXCEPT !.writer = FALSE]
    /\ ptNew' = <<>>
    /\ ptPc' = "idle"
    /\ UNCHANGED <<portPidMap, ptSnap, nRefresh, ptRpc, ptGot>>
    /\ PtFrame

\* GetProcessName: pt.mu.RLock()
PtGetLock ==
    /\ ptRpc = "idle"
    /\ ~ptMu.writer
    /\ ptMu' = [ptMu EXCEPT !.readers = @ + 1]
    /\ ptRpc' = "rlocked"
    /\ UNCHANGED <<portPidMap, pidNameMap, ptPc, ptNew, ptSnap, nRefresh,
                   ptGot>>
    /\ PtFrame

\* GetProcessName(port): the two lookups and the deferred RUnlock.
PtGetBody ==
    /\ ptRpc = "rlocked"
    /\ \E port \in 0..MaxPort :
          ptGot' = [port |-> port,
                    name |-> LookupName(portPidMap, pidNameMap, port),
                    read |-> portPidMap]
    /\ ptMu' = [ptMu EXCEPT !.readers = @ - 1]
    /\ ptRpc' = "idle"
    /\ UNCHANGED <<portPidMap, pidNameMap, ptPc, ptNew, ptSnap, nRefresh>>
    /\ PtFrame

\* ------------------------------------------------------- the capture task
Broadcasters == {"cap", "tick"}
\* The WebSocket connections accepted while the model runs.
Clients == {"c1", "c2"}

InitCapture ==
    /\ capPc = "parse"
    /\ capP = NewPacket(0, 0)
    /\ nFrames = 0
    /\ bcastArg = <<>>
    /\ truncHist = [pre |-> {}, ok |-> FALSE]
    /\ InitPtState

\* for packet := range packetSource.Packets() { p := parsePacket(packet)
CapParse ==
    /\ ~panicked
    /\ capPc = "parse"
    /\ nFrames < srcFrames
    /\ nFrames' = nFrames + 1
    /\ capP' = NewPacket(nFrames + 1, 1)
    /\ capPc' = "add"
    /\ UNCHANGED <<dbEnabled, srcFrames, storeVars, wsVars, dbVars>>
    /\ UNCHANGED extVars

\* store.AddPacket(p): Lock, the body, Unlock. Nothing in between blocks.
CapAddPacket_skipQueue ==
    /\ ~panicked
    /\ capPc = "add"
    /\ MuFree
    /\ StoreAdd(capP)
    /\ capPc' = "bcast"
    /\ UNCHANGED <<maxPackets, mu, spc, sarg, lastGet, lastLimit, nCalls,
                   lockOrder>>
    /\ UNCHANGED <<dbEnabled, capP, nFrames, srcFrames, wsVars, dbVars>>
    /\ UNCHANGED extVars
CapAddPacket ==
    /\ ~panicked
    /\ capPc = "add"
    /\ MuFree
    /\ StoreAdd(capP)
    /\ capPc' = IF dbEnabled THEN "queue" ELSE "bcast"
    /\ UNCHANGED <<maxPackets, mu, spc, sarg, lastGet, lastLimit, nCalls,
                   lockOrder>>
    /\ UNCHANGED <<dbEnabled, capP, nFrames, srcFrames, wsVars, dbVars>>
    /\ UNCHANGED extVars

\* ------------------------------------------------------ WebSocket fan-out
\* A serialized message: the k-th "packet" event of the capture loop, the k-th
\* "stats" event of the ticker, or a handler's "init" message.
Msg(src, k) == [src |-> src, k |-> k]
InitMsg == Msg("init", 0)

\* select { case client.send <- jsonData: default: }
\* The default branch makes the select ready whatever the queue holds.
SelectReady_nodefault(q) == Len(q) < SendCap
SelectReady(q) == Len(q) < SendCap \/ TRUE

\* The send case is taken when the channel has room, else the default.
TrySend(q, m) == IF Len(q) < SendCap THEN Append(q, m) ELSE q

\* for msg := range client.send: the next message and the rest of the queue.
ChanRecv_peek(q) == [msg |-> Head(q), rest |-> q]
ChanRecv(q) == [msg |-> Head(q), rest |-> Tail(q)]

InitWS ==
    /\ clients = {}
    /\ cmuReaders = {}
    /\ send = [c \in Clients |-> <<>>]
    /\ sendClosed = [c \in Clients |-> FALSE]
    /\ connOK = [c \in Clients |-> TRUE]
    /\ hpc = [c \in Clients |-> "none"]
    /\ wpc = [c \in Clients |-> "off"]
    /\ whand = [c \in Clients |-> InitMsg]
    /\ written = [c \in Clients |-> <<>>]
    /\ bpc = [b \in Broadcasters |-> "idle"]
    /\ brem = [b \in Broadcasters |-> {}]
    /\ bmsg = [b \in Broadcasters |-> InitMsg]
    /\ nTicks = 0
    /\ blog = <<>>

\* Broadcast up to the range loop: json.Marshal, ps.clientsMu.RLock().
\* The registry's write lock is only ever held for one map insert or delete.
BroadcastBegin_noLock(b) ==
    /\ bpc[b] = "idle"
    /\ bpc' = [bpc EXCEPT ![b] = "loop"]
    /\ cmuReaders' = cmuReaders
    /\ brem' = [brem EXCEPT ![b] = clients]
    /\ bmsg' = [bmsg EXCEPT ![b] = Msg(b, IF b = "cap" THEN nFrames
                                                     ELSE nTicks + 1)]
    /\ blog' = Append(blog, bmsg'[b])
BroadcastBegin(b) ==
    /\ bpc[b] = "idle"
    /\ bpc' = [bpc EXCEPT ![b] = "loop"]
    /\ cmuReaders' = cmuReaders \cup {b}
    /\ brem' = [brem EXCEPT ![b] = clients]
    /\ bmsg' = [bmsg EXCEPT ![b] = Msg(b, IF b = "cap" THEN nFrames
                                                     ELSE nTicks + 1)]
    /\ blog' = Append(blog, bmsg'[b])

\* store.Broadcast("packet", p) in the capture loop
CapBroadcastBegin ==
    /\ ~panicked
    /\ capPc = "bcast"
    /\ BroadcastBegin("cap")
    /\ bcastArg' = Append(bcastArg, capP)
    /\ UNCHANGED <<truncHist, ptVars>>
    /\ capPc' = "bloop"
    /\ UNCHANGED <<clients, send, sendClosed, connOK, hpc, wpc, whand, written,
                   nTicks>>
    /\ UNCHANGED <<storeVars, dbEnabled, capP, nFrames, srcFrames, dbVars>>
    /\ UNCHANGED <<qVars, resVars, statVars, appVars, bootVars>>

\* for range ticker.C { store.Broadcast("stats", store.GetStats()) }
TickBroadcastBegin ==
    /\ ~panicked
    /\ nTicks < MaxTicks
    /\ mu.writer = "none"
    /\ BroadcastBegin("tick")
    /\ nTicks' = nTicks + 1
    /\ UNCHANGED <<clients, send, sendClosed, connOK, hpc, wpc, whand, written>>
    /\ UNCHANGED <<storeVars, capVars, dbVars>>
    /\ UNCHANGED extVars

\* One iteration of for client := range ps.clients, in map order (any order).
\* A send on a closed channel panics.
BroadcastSend(b, c) ==
    /\ ~panicked
    /\ bpc[b] = "loop"
    /\ c \in brem[b]
    /\ SelectReady(send[c])
    /\ brem' = [brem EXCEPT ![b] = @ \ {c}]
    /\ IF sendClosed[c]
       THEN /\ panicked' = TRUE
            /\ UNCHANGED send
       ELSE /\ send' = [send EXCEPT ![c] = TrySend(@, bmsg[b])]
            /\ UNCHANGED panicked
    /\ UNCHANGED <<clients, cmuReaders, sendClosed, connOK, hpc, wpc, whand,
                   written, bpc, bmsg, nTicks, blog>>
    /\ UNCHANGED <<maxPackets, packets, packetID, stats, mu, spc, sarg,
                   lastGet, lastLimit, nCalls, lockOrder, stored, capVars,
                   dbVars>>
    /\ UNCHANGED extVars

\* The loop is over: the deferred RUnlock, and Broadcast returns.
BroadcastEnd(b) ==
    /\ ~panicked
    /\ bpc[b] = "loop"
    /\ brem[b] = {}
    /\ bpc' = [bpc EXCEPT ![b] = "idle"]
    /\ cmuReaders' = cmuReaders \ {b}
    /\ bmsg' = [bmsg EXCEPT ![b] = InitMsg]
    /\ capPc' = IF b = "cap" THEN "parse" ELSE capPc
    /\ UNCHANGED <<clients, send, sendClosed, connOK, hpc, wpc, whand, written,
                   brem, nTicks, blog>>
    /\ UNCHANGED <<storeVars, dbEnabled, capP, nFrames, srcFrames, dbVars>>
    /\ UNCHANGED extVars

\* /ws: the upgrade succeeded; client := &wsClient{conn, make(chan []byte, 256)}
\* and the client is put in the registry under clientsMu.Lock().
HandlerRegister_startWriter(c) ==
    /\ ~panicked
    /\ hpc[c] = "none"
    /\ cmuReaders = {}
    /\ clients' = clients \cup {c}
    /\ hpc' = [hpc EXCEPT ![c] = "init"]
    /\ wpc' = [wpc EXCEPT ![c] = "recv"]
    /\ UNCHANGED <<cmuReaders, send, sendClosed, connOK, whand, written,
                   bpc, brem, bmsg, nTicks, blog>>
    /\ UNCHANGED <<storeVars, capVars, dbVars>>
    /\ UNCHANGED extVars
HandlerRegister(c) ==
    /\ ~panicked
    /\ hpc[c] = "none"
    /\ cmuReaders = {}
    /\ clients' = clients \cup {c}
    /\ hpc' = [hpc EXCEPT ![c] = "init"]
    /\ UNCHANGED <<cmuReaders, send, sendClosed, connOK, wpc, whand, written,
                   bpc, brem, bmsg, nTicks, blog>>
    /\ UNCHANGED <<storeVars, capVars, dbVars>>
    /\ UNCHANGED extVars

\* "packets": store.GetPackets(100) in the init message.
InitLimit == 100
InitPackets(pk) == GetPackets(pk, InitLimit)

\* The handler marshals the init snapshot and writes it to the connection
\* itself (a failed write is ignored), then starts the writer goroutine:
\* go func() { for msg := range client.send { ... } }()
HandlerSendInit(c) ==
    /\ ~panicked
    /\ hpc[c] = "init"
    /\ mu.writer = "none"
    /\ written' = [written EXCEPT ![c] =
                     IF connOK[c] THEN Append(@, InitMsg) ELSE @]
    /\ wpc' = [wpc EXCEPT ![c] = "recv"]
    /\ hpc' = [hpc EXCEPT ![c] = "read"]
    /\ UNCHANGED <<clients, cmuReaders, send, sendClosed, connOK, whand,
                   bpc, brem, bmsg, nTicks, blog>>
    /\ UNCHANGED <<storeVars, capVars, dbVars>>
    /\ UNCHANGED extVars

\* The peer goes away or the network fails: from now on reads and writes on
\* the connection return an error.
PeerClose(c) ==
    /\ ~panicked
    /\ hpc[c] \in {"init", "read"}
    /\ connOK[c]
    /\ connOK' = [connOK EXCEPT ![c] = FALSE]
    /\ UNCHANGED <<clients, cmuReaders, send, sendClosed, hpc, wpc, whand,
                   written, bpc, brem, bmsg, nTicks, blog>>
    /\ UNCHANGED <<storeVars, capVars, dbVars>>
    /\ UNCHANGED extVars

\* conn.ReadMessage() returns an error: the reader loop breaks and the
\* deferred cleanup starts.
HandlerReadError_onFull(c) ==
    /\ ~panicked
    /\ hpc[c] = "read"
    /\ (~connOK[c] \/ Len(send[c]) >= SendCap)
    /\ hpc' = [hpc EXCEPT ![c] = "unregister"]
    /\ UNCHANGED <<clients, cmuReaders, send, sendClosed, connOK, wpc, whand,
                   written, bpc, brem, bmsg, nTicks, blog>>
    /\ UNCHANGED <<storeVars, capVars, dbVars>>
    /\ UNCHANGED extVars
HandlerReadError(c) ==
    /\ ~panicked
    /\ hpc[c] = "read"
    /\ ~connOK[c]
    /\ hpc' = [hpc EXCEPT ![c] = "unregister"]
    /\ UNCHANGED <<clients, cmuReaders, send, sendClosed, connOK, wpc, whand,
                   written, bpc, brem, bmsg, nTicks, blog>>
    /\ UNCHANGED <<storeVars, capVars, dbVars>>
    /\ UNCHANGED extVars

\* cleanup: clientsMu.Lock(); delete(store.clients, client); Unlock()
HandlerUnregister_keepClient(c) ==
    /\ ~panicked
    /\ hpc[c] = "unregister"
    /\ cmuReaders = {}
    /\ hpc' = [hpc EXCEPT ![c] = "close"]
    /\ UNCHANGED <<clients, cmuReaders, send, sendClosed, connOK, wpc, whand,
                   written, bpc, brem, bmsg, nTicks, blog>>
    /\ UNCHANGED <<storeVars, capVars, dbVars>>
    /\ UNCHANGED extVars
HandlerUnregister(c) ==
    /\ ~panicked
    /\ hpc[c] = "unregister"
    /\ cmuReaders = {}
    /\ clients' = clients \ {c}
    /\ hpc' = [hpc EXCEPT ![c] = "close"]
    /\ UNCHANGED <<cmuReaders, send, sendClosed, connOK, wpc, whand, written,
                   bpc, brem, bmsg, nTicks, blog>>
    /\ UNCHANGED <<storeVars, capVars, dbVars>>
    /\ UNCHANGED extVars

\* cleanup: close(client.send); conn.Close()
HandlerClose(c) ==
    /\ ~panicked
    /\ hpc[c] = "close"
    /\ sendClosed' = [sendClosed EXCEPT ![c] = TRUE]
    /\ connOK' = [connOK EXCEPT ![c] = FALSE]
    /\ hpc' = [hpc EXCEPT ![c] = "done"]
    /\ UNCHANGED <<clients, cmuReaders, send, wpc, whand, written, bpc, brem,
                   bmsg, nTicks, blog>>
    /\ UNCHANGED <<storeVars, capVars, dbVars>>
    /\ UNCHANGED extVars

\* The writer goroutine receives from client.send; the range ends when the
\* channel is closed and drained.
WriterRecv(c) ==
    /\ ~panicked
    /\ wpc[c] = "recv"
    /\ IF send[c] # <<>>
       THEN /\ whand' = [whand EXCEPT ![c] = ChanRecv(send[c]).msg]
            /\ send' = [send EXCEPT ![c] = ChanRecv(send[c]).rest]
            /\ wpc' = [wpc EXCEPT ![c] = "write"]
       ELSE /\ sendClosed[c]
            /\ wpc' = [wpc EXCEPT ![c] = "exit"]
            /\ UNCHANGED <<whand, send>>
    /\ UNCHANGED <<clients, cmuReaders, sendClosed, connOK, hpc, written, bpc,
                   brem, bmsg, nTicks, blog>>
    /\ UNCHANGED <<storeVars, capVars, dbVars>>
    /\ UNCHANGED extVars

\* conn.WriteMessage(websocket.TextMessage, msg); the writer returns on error.
WriterWrite(c) ==
    /\ ~panicked
    /\ wpc[c] = "write"
    /\ IF connOK[c]
       THEN /\ written' = [written EXCEPT ![c] = Append(@, whand[c])]
            /\ wpc' = [wpc EXCEPT ![c] = "recv"]
       ELSE /\ wpc' = [wpc EXCEPT ![c] = "exit"]
            /\ UNCHANGED written
    /\ whand' = [whand EXCEPT ![c] = InitMsg]
    /\ UNCHANGED <<clients, cmuReaders, send, sendClosed, connOK, hpc,
                   bpc, brem, bmsg, nTicks, blog>>
    /\ UNCHANGED <<storeVars, capVars, dbVars>>
    /\ UNCHANGED extVars

\* ------------------------------------------------------------ Database
\* d.batchQueue = append(d.batchQueue, p)
BatchAppend_front(q, f) == <<f>> \o q
BatchAppend(q, f) == Append(q, f)

\* shouldFlush := len(d.batchQueue) >= d.batchSize
ShouldFlush_above(q) == Len(q) > BatchSize
ShouldFlush(q) == Len(q) >= BatchSize

\* select { case d.flushChan <- struct{}{}: default: } on the 1-slot channel
Signal(n) == IF n < 1 THEN n + 1 ELSE n

\* NewDatabase succeeded: the handle is open, the statement prepared, the
\* background writer started.
InitDBState ==
    /\ batchQueue = <<>>
    /\ insertMu = "free"
    /\ flushChan = 0
    /\ stopClosed = FALSE
    /\ tickerStopped = FALSE
    /\ stmtClosed = FALSE
    /\ dbClosed = FALSE
    /\ rows = <<>>
    /\ dbLock = "none"
    /\ fpc = "select"
    /\ fWake = "none"
    /\ fPackets = <<>>
    /\ txRows = <<>>
    /\ stmtOK = FALSE
    /\ cpc = "idle"
    /\ tpc = "idle"
    /\ nTrunc = 0
    /\ nFaults = 0
    /\ flushed = {}
    /\ execFailed = {}
    /\ txFault = {}
    /\ deleted = {}

\* QueuePacket: d.insertMu.Lock()
CapQueueLock ==
    /\ ~panicked
    /\ capPc = "queue"
    /\ insertMu = "free"
    /\ insertMu' = "cap"
    /\ capPc' = "qlocked"
    /\ UNCHANGED <<batchQueue, flushChan, stopClosed, tickerStopped,
                   stmtClosed, dbClosed, rows, dbLock, fpc, fWake, fPackets,
                   txRows, stmtOK, cpc, tpc, nTrunc, nFaults, flushed,
                   execFailed, txFault, deleted>>
    /\ UNCHANGED <<storeVars, dbEnabled, capP, nFrames, srcFrames, wsVars>>
    /\ UNCHANGED extVars

\* QueuePacket: the append, shouldFlush, d.insertMu.Unlock()
CapQueueAppend ==
    /\ ~panicked
    /\ capPc = "qlocked"
    /\ batchQueue' = BatchAppend(batchQueue, capP.frame)
    /\ capPc' = IF ShouldFlush(batchQueue') THEN "qsignal" ELSE "bcast"
    /\ insertMu' = "free"
    /\ UNCHANGED <<flushChan, stopClosed, tickerStopped, stmtClosed, dbClosed,
                   rows, dbLock, fpc, fWake, fPackets, txRows, stmtOK, cpc,
                   tpc, nTrunc, nFaults, flushed, execFailed, txFault,
                   deleted>>
    /\ UNCHANGED <<storeVars, dbEnabled, capP, nFrames, srcFrames, wsVars>>
    /\ UNCHANGED extVars

\* QueuePacket: if shouldFlush, the non-blocking send on d.flushChan
CapQueueSignal ==
    /\ ~panicked
    /\ capPc = "qsignal"
    /\ flushChan' = Signal(flushChan)
    /\ capPc' = "bcast"
    /\ UNCHANGED <<batchQueue, insertMu, stopClosed, tickerStopped,
                   stmtClosed, dbClosed, rows, dbLock, fpc, fWake, fPackets,
                   txRows, stmtOK, cpc, tpc, nTrunc, nFaults, flushed,
                   execFailed, txFault, deleted>>
    /\ UNCHANGED <<storeVars, dbEnabled, capP, nFrames, srcFrames, wsVars>>
    /\ UNCHANGED extVars

\* backgroundFlush: case <-d.flushTicker.C
WriterTick ==
    /\ ~panicked
    /\ fpc = "select"
    /\ ~tickerStopped
    /\ fWake' = "tick"
    /\ fpc' = "lock"
    /\ UNCHANGED <<batchQueue, insertMu, flushChan, stopClosed, tickerStopped,
                   stmtClosed, dbClosed, rows, dbLock, fPackets,
                   txRows, stmtOK, cpc, tpc, nTrunc, nFaults, flushed,
                   execFailed, txFault, deleted>>
    /\ UNCHANGED <<storeVars, capVars, wsVars>>
    /\ UNCHANGED extVars

\* backgroundFlush: case <-d.flushChan
WriterSignal ==
    /\ ~panicked
    /\ fpc = "select"
    /\ flushChan > 0
    /\ flushChan' = flushChan - 1
    /\ fWake' = "signal"
    /\ fpc' = "lock"
    /\ UNCHANGED <<batchQueue, insertMu, stopClosed, tickerStopped,
                   stmtClosed, dbClosed, rows, dbLock, fPackets,
                   txRows, stmtOK, cpc, tpc, nTrunc, nFaults, flushed,
                   execFailed, txFault, deleted>>
    /\ UNCHANGED <<storeVars, capVars, wsVars>>
    /\ UNCHANGED extVars

\* backgroundFlush: case <-d.stopChan: d.flushTicker.Stop(), the final Flush
WriterStop ==
    /\ ~panicked
    /\ fpc = "select"
    /\ stopClosed
    /\ tickerStopped' = TRUE
    /\ fWake' = "stop"
    /\ fpc' = "lock"
    /\ UNCHANGED <<batchQueue, insertMu, flushChan, stopClosed, stmtClosed,
                   dbClosed, rows, dbLock, fPackets, txRows, stmtOK, cpc, tpc,
                   nTrunc, nFaults, flushed, execFailed, txFault, deleted>>
    /\ UNCHANGED <<storeVars, capVars, wsVars>>
    /\ UNCHANGED extVars

\* Where backgroundFlush goes when Flush returns.
AfterFlush_loop == "select"
AfterFlush == IF fWake = "stop" THEN "stopped" ELSE "select"

\* Flush: d.insertMu.Lock()
FlushLock ==
    /\ ~panicked
    /\ fpc = "lock"
    /\ insertMu = "free"
    /\ insertMu' = "writer"
    /\ fpc' = "locked"
    /\ UNCHANGED <<batchQueue, flushChan, stopClosed, tickerStopped,
                   stmtClosed, dbClosed, rows, dbLock, fWake, fPackets,
                   txRows, stmtOK, cpc, tpc, nTrunc, nFaults, flushed,
                   execFailed, txFault, deleted>>
    /\ UNCHANGED <<storeVars, capVars, wsVars>>
    /\ UNCHANGED extVars

\* A Flush that leaves part of what it copied in the queue.
FlushTake_keepQueue ==
    /\ ~panicked
    /\ fpc = "locked"
    /\ IF batchQueue = <<>>
       THEN /\ fpc' = AfterFlush
            /\ UNCHANGED <<fPackets, batchQueue>>
       ELSE /\ fPackets' = batchQueue
            /\ batchQueue' = Tail(batchQueue)
            /\ fpc' = "begin"
    /\ insertMu' = "free"
    /\ UNCHANGED <<flushChan, stopClosed, tickerStopped, stmtClosed, dbClosed,
                   rows, dbLock, fWake, txRows, stmtOK, cpc, tpc, nTrunc,
                   nFaults, flushed, execFailed, txFault, deleted>>
    /\ UNCHANGED <<storeVars, capVars, wsVars>>
    /\ UNCHANGED extVars

\* A Flush that keeps d.insertMu until it returns.
FlushTake_holdLock ==
    /\ ~panicked
    /\ fpc = "locked"
    /\ batchQueue # <<>>
    /\ fPackets' = batchQueue
    /\ batchQueue' = <<>>
    /\ fpc' = "begin"
    /\ UNCHANGED <<insertMu, flushChan, stopClosed, tickerStopped, stmtClosed,
                   dbClosed, rows, dbLock, fWake, txRows, stmtOK, cpc, tpc,
                   nTrunc, nFaults, flushed, execFailed, txFault, deleted>>
    /\ UNCHANGED <<storeVars, capVars, wsVars>>
    /\ UNCHANGED extVars

\* Flush under the mutex: return if the queue is empty, else copy the queue,
\* truncate it to length 0, and unlock.
FlushTake ==
    /\ ~panicked
    /\ fpc = "locked"
    /\ IF batchQueue = <<>>
       THEN /\ fpc' = AfterFlush
            /\ UNCHANGED <<fPackets, batchQueue>>
       ELSE /\ fPackets' = batchQueue
            /\ batchQueue' = <<>>
            /\ fpc' = "begin"
    /\ insertMu' = "free"
    /\ UNCHANGED <<flushChan, stopClosed, tickerStopped, stmtClosed, dbClosed,
                   rows, dbLock, fWake, txRows, stmtOK, cpc, tpc, nTrunc,
                   nFaults, flushed, execFailed, txFault, deleted>>
    /\ UNCHANGED <<storeVars, capVars, wsVars>>
    /\ UNCHANGED extVars

\* Flush: tx, err := d.db.Begin(); on error log and return (the batch is
\* gone). Begin fails on a closed handle. Then stmt := tx.Stmt(d.insertStmt),
\* which is unusable when the statement has been closed.
FlushBegin ==
    /\ ~panicked
    /\ fpc = "begin"
    /\ \E ok \in BOOLEAN :
          /\ ok => ~dbClosed
          /\ (~ok /\ ~dbClosed) => nFaults < MaxFaults
          /\ nFaults' = IF ~ok /\ ~dbClosed THEN nFaults + 1 ELSE nFaults
          /\ IF ok
             THEN /\ fpc' = "exec"
                  /\ stmtOK' = ~stmtClosed
                  /\ UNCHANGED <<fPackets, flushed, txFault>>
             ELSE /\ fpc' = AfterFlush
                  /\ fPackets' = <<>>
                  /\ flushed' = flushed \cup Range(fPackets)
                  /\ txFault' = txFault \cup Range(fPackets)
                  /\ UNCHANGED stmtOK
    /\ UNCHANGED <<batchQueue, insertMu, flushChan, stopClosed, tickerStopped,
                   stmtClosed, dbClosed, rows, dbLock, fWake, txRows, cpc,
                   tpc, nTrunc, execFailed, deleted>>
    /\ UNCHANGED <<storeVars, capVars, wsVars>>
    /\ UNCHANGED extVars

\* stmt.Exec can succeed when the transaction's statement is usable and no
\* other transaction holds SQLite's write lock.
ExecCanSucceed == stmtOK /\ dbLock \in {"none", "writer"}

\* stmt.Exec fails, or may fail, without any fault of the disk: the statement
\* was closed by Close, or the write lock stayed busy past the busy timeout.
ExecFailsAnyway == ~stmtOK \/ stmtClosed \/ dbLock = "trunc"

\* A Flush that gives up at the first INSERT error: the transaction is
\* dropped and the rest of the batch with it.
FlushExec_abort ==
    /\ ~panicked
    /\ fpc = "exec"
    /\ fPackets # <<>>
    /\ \E ok \in BOOLEAN :
          /\ ok => ExecCanSucceed
          /\ (~ok /\ ~ExecFailsAnyway) => nFaults < MaxFaults
          /\ nFaults' = IF ~ok /\ ~ExecFailsAnyway
                        THEN nFaults + 1 ELSE nFaults
          /\ IF ok
             THEN /\ txRows' = Append(txRows, Head(fPackets))
                  /\ dbLock' = "writer"
                  /\ fPackets' = Tail(fPackets)
                  /\ UNCHANGED <<execFailed, flushed, fpc>>
             ELSE /\ execFailed' = execFailed \cup {Head(fPackets)}
                  /\ txRows' = <<>>
                  /\ dbLock' = IF dbLock = "writer" THEN "none" ELSE dbLock
                  /\ flushed' = flushed \cup Range(fPackets) \cup Range(txRows)
                  /\ fPackets' = <<>>
                  /\ fpc' = AfterFlush
    /\ UNCHANGED <<batchQueue, insertMu, flushChan, stopClosed, tickerStopped,
                   stmtClosed, dbClosed, rows, fWake, stmtOK, cpc, tpc,
                   nTrunc, txFault, deleted>>
    /\ UNCHANGED <<storeVars, capVars, wsVars>>
    /\ UNCHANGED extVars

\* Flush: one iteration of for _, p := range packets { stmt.Exec(...) }.
\* An error is logged and the loop goes on. The INSERT takes SQLite's write
\* lock; while another transaction holds it the INSERT waits, or gives up
\* with an error after the busy timeout.
FlushExec ==
    /\ ~panicked
    /\ fpc = "exec"
    /\ fPackets # <<>>
    /\ \E ok \in BOOLEAN :
          /\ ok => ExecCanSucceed
          /\ (~ok /\ ~ExecFailsAnyway) => nFaults < MaxFaults
          /\ nFaults' = IF ~ok /\ ~ExecFailsAnyway
                        THEN nFaults + 1 ELSE nFaults
          /\ IF ok
             THEN /\ txRows' = Append(txRows, Head(fPackets))
                  /\ dbLock' = "writer"
                  /\ UNCHANGED execFailed
             ELSE /\ execFailed' = execFailed \cup {Head(fPackets)}
                  /\ UNCHANGED <<txRows, dbLock>>
    /\ fPackets' = Tail(fPackets)
    /\ UNCHANGED <<batchQueue, insertMu, flushChan, stopClosed, tickerStopped,
                   stmtClosed, dbClosed, rows, fpc, fWake, stmtOK, cpc, tpc,
                   nTrunc, flushed, txFault, deleted>>
    /\ UNCHANGED <<storeVars, capVars, wsVars>>
    /\ UNCHANGED extVars

\* Flush: tx.Commit(); on error log and roll back. Flush returns. A commit
\* racing with Close's d.db.Close() may succeed or fail.
FlushCommit ==
    /\ ~panicked
    /\ fpc = "exec"
    /\ fPackets = <<>>
    /\ \E ok \in BOOLEAN :
          /\ (~ok /\ ~dbClosed) => nFaults < MaxFaults
          /\ nFaults' = IF ~ok /\ ~dbClosed THEN nFaults + 1 ELSE nFaults
          /\ rows' = IF ok THEN rows \o txRows ELSE rows
          /\ txFault' = IF ok THEN txFault
                        ELSE txFault \cup (Range(txRows) \cup
                               {f \in execFailed : f \notin flushed})
          /\ flushed' = flushed \cup Range(txRows) \cup execFailed
    /\ txRows' = <<>>
    /\ dbLock' = IF dbLock = "writer" THEN "none" ELSE dbLock
    /\ fpc' = AfterFlush
    /\ UNCHANGED <<batchQueue, insertMu, flushChan, stopClosed, tickerStopped,
                   stmtClosed, dbClosed, fWake, fPackets, stmtOK, cpc, tpc,
                   nTrunc, execFailed, deleted>>
    /\ UNCHANGED <<storeVars, capVars, wsVars>>
    /\ UNCHANGED extVars

\* Close: close(d.stopChan)
CloseStop ==
    /\ ~panicked
    /\ cpc = "idle"
    /\ stopClosed' = TRUE
    /\ cpc' = "stmt"
    /\ UNCHANGED <<batchQueue, insertMu, flushChan, tickerStopped, stmtClosed,
                   dbClosed, rows, dbLock, fpc, fWake, fPackets, txRows,
                   stmtOK, tpc, nTrunc, nFaults, flushed, execFailed, txFault,
                   deleted>>
    /\ UNCHANGED <<storeVars, capVars, wsVars>>
    /\ UNCHANGED extVars

\* Close: d.insertStmt.Close()
CloseStmt ==
    /\ ~panicked
    /\ cpc = "stmt"
    /\ stmtClosed' = TRUE
    /\ cpc' = "db"
    /\ UNCHANGED <<batchQueue, insertMu, flushChan, stopClosed, tickerStopped,
                   dbClosed, rows, dbLock, fpc, fWake, fPackets, txRows,
                   stmtOK, tpc, nTrunc, nFaults, flushed, execFailed, txFault,
                   deleted>>
    /\ UNCHANGED <<storeVars, capVars, wsVars>>
    /\ UNCHANGED extVars

\* Close: return d.db.Close()
CloseDB ==
    /\ ~panicked
    /\ cpc = "db"
    /\ dbClosed' = TRUE
    /\ cpc' = "done"
    /\ UNCHANGED <<batchQueue, insertMu, flushChan, stopClosed, tickerStopped,
                   stmtClosed, rows, dbLock, fpc, fWake, fPackets, txRows,
                   stmtOK, tpc, nTrunc, nFaults, flushed, execFailed, txFault,
                   deleted>>
    /\ UNCHANGED <<storeVars, capVars, wsVars>>
    /\ UNCHANGED extVars

\* The frames whose QueuePacket has appended them to the batch queue.
Appended ==
    1..(IF capPc \in {"add", "queue", "qlocked"} THEN nFrames - 1 ELSE nFrames)

\* Truncate: d.insertMu.Lock()
TruncateLock ==
    /\ ~panicked
    /\ tpc = "idle"
    /\ nTrunc < MaxTruncates
    /\ insertMu = "free"
    /\ insertMu' = "trunc"
    /\ nTrunc' = nTrunc + 1
    /\ tpc' = "locked"
    /\ truncHist' = [pre |-> Appended, ok |-> FALSE]
    /\ UNCHANGED <<batchQueue, flushChan, stopClosed, tickerStopped,
                   stmtClosed, dbClosed, rows, dbLock, fpc, fWake, fPackets,
                   txRows, stmtOK, cpc, nFaults, flushed, execFailed, txFault,
                   deleted>>
    /\ UNCHANGED <<storeVars, capVars, wsVars>>
    /\ UNCHANGED <<bcastArg, ptVars, qVars, resVars, statVars, appVars,
                   bootVars>>

\* Truncate: d.batchQueue = d.batchQueue[:0]; d.insertMu.Unlock()
TruncateClearQueue ==
    /\ ~panicked
    /\ tpc = "locked"
    /\ batchQueue' = <<>>
    /\ insertMu' = "free"
    /\ tpc' = "begin"
    /\ UNCHANGED <<flushChan, stopClosed, tickerStopped, stmtClosed, dbClosed,
                   rows, dbLock, fpc, fWake, fPackets, txRows, stmtOK, cpc,
                   nTrunc, nFaults, flushed, execFailed, txFault, deleted>>
    /\ UNCHANGED <<storeVars, capVars, wsVars>>
    /\ UNCHANGED extVars

\* Truncate: tx, err := d.db.Begin(); return err on failure.
TruncateBegin ==
    /\ ~panicked
    /\ tpc = "begin"
    /\ tpc' = IF dbClosed THEN "idle" ELSE "delete"
    /\ UNCHANGED <<batchQueue, insertMu, flushChan, stopClosed, tickerStopped,
                   stmtClosed, dbClosed, rows, dbLock, fpc, fWake, fPackets,
                   txRows, stmtOK, cpc, nTrunc, nFaults, flushed, execFailed,
                   txFault, deleted>>
    /\ UNCHANGED <<storeVars, capVars, wsVars>>
    /\ UNCHANGED extVars

\* Truncate: the DELETE statements. The first takes SQLite's write lock;
\* while Flush's transaction holds it the DELETE waits, or gives up with an
\* error after the busy timeout (rollback, return the error).
TruncateDelete ==
    /\ ~panicked
    /\ tpc = "delete"
    /\ IF dbLock = "writer"
       THEN /\ tpc' = "idle"
            /\ UNCHANGED dbLock
       ELSE /\ dbLock' = "trunc"
            /\ tpc' = "commit"
    /\ UNCHANGED <<batchQueue, insertMu, flushChan, stopClosed, tickerStopped,
                   stmtClosed, dbClosed, rows, fpc, fWake, fPackets, txRows,
                   stmtOK, cpc, nTrunc, nFaults, flushed, execFailed, txFault,
                   deleted>>
    /\ UNCHANGED <<storeVars, capVars, wsVars>>
    /\ UNCHANGED extVars

\* Truncate: tx.Commit() (and the VACUUM, which changes no row); return.
TruncateCommit ==
    /\ ~panicked
    /\ tpc = "commit"
    /\ rows' = <<>>
    /\ deleted' = deleted \cup Range(rows)
    /\ dbLock' = "none"
    /\ tpc' = "idle"
    /\ truncHist' = [truncHist EXCEPT !.ok = TRUE]
    /\ UNCHANGED <<batchQueue, insertMu, flushChan, stopClosed, tickerStopped,
                   stmtClosed, dbClosed, fpc, fWake, fPackets, txRows,
                   stmtOK, cpc, nTrunc, nFaults, flushed, execFailed, txFault>>
    /\ UNCHANGED <<storeVars, capVars, wsVars>>
    /\ UNCHANGED <<bcastArg, ptVars, qVars, resVars, statVars, appVars,
                   bootVars>>

\* ------------------------------------------------------- history queries
\* Text is a sequence of characters. Sample values of the text columns.
IP1 == <<"1">>
IP2 == <<"2">>
IP12 == <<"1", "2">>
US == <<"U", "S">>
DE == <<"D", "E">>
TCP == <<"T">>
UDP == <<"U">>

\* A NULL column value (it is not a text: no character is "NULL").
Null == <<"NULL">>

\* A nil *time.Time
NoTime == 0

Min(a, b) == IF a < b THEN a ELSE b
Max(a, b) == IF a > b THEN a ELSE b

\* SQLite's LIKE folds the case of ASCII letters.
ToLower(c) ==
    CASE c = "T" -> "t"
      [] c = "U" -> "u"
      [] c = "S" -> "s"
      [] c = "D" -> "d"
      [] c = "E" -> "e"
      [] OTHER -> c

LowerStr(s) == [i \in DOMAIN s |-> ToLower(s[i])]

Contains(s, t) ==
    \E i \in 0..(Len(s) - Len(t)) : SubSeq(s, i + 1, i + Len(t)) = t

\* col LIKE '%' + filter + '%'; a NULL column matches nothing.
Like(col, f) == col # Null /\ Contains(LowerStr(col), LowerStr(f))

\* strings.TrimSpace
RECURSIVE TrimLeft(_)
TrimLeft(s) == IF s # <<>> /\ Head(s) = " " THEN TrimLeft(Tail(s)) ELSE s

RECURSIVE TrimRight(_)
TrimRight(s) ==
    IF s # <<>> /\ s[Len(s)] = " "
    THEN TrimRight(SubSeq(s, 1, Len(s) - 1))
    ELSE s

TrimSpace(s) == TrimRight(TrimLeft(s))

\* strings.Split(s, sep) for a one-character separator
RECURSIVE Split(_, _)
Split(s, sep) ==
    IF \E i \in DOMAIN s : s[i] = sep
    THEN LET i == CHOOSE k \in DOMAIN s :
                     s[k] = sep /\ \A j \in 1..(k - 1) : s[j] # sep
         IN  <<SubSeq(s, 1, i - 1)>> \o Split(SubSeq(s, i + 1, Len(s)), sep)
    ELSE <<s>>

Digits == {"0", "1", "2", "3", "4", "5", "6", "7", "8", "9"}

DigitVal(c) ==
    CASE c = "0" -> 0 [] c = "1" -> 1 [] c = "2" -> 2 [] c = "3" -> 3
      [] c = "4" -> 4 [] c = "5" -> 5 [] c = "6" -> 6 [] c = "7" -> 7
      [] c = "8" -> 8 [] c = "9" -> 9

RECURSIVE LeadDigits(_)
LeadDigits(s) ==
    IF s # <<>> /\ Head(s) \in Digits THEN 1 + LeadDigits(Tail(s)) ELSE 0

RECURSIVE DecValue(_)
DecValue(s) ==
    IF s = <<>> THEN 0
    ELSE 10 * DecValue(SubSeq(s, 1, Len(s) - 1)) + DigitVal(s[Len(s)])

\* fmt.Sscanf(raw, "%d", &v) with the error ignored: leading spaces are
\* skipped, then an optional sign and the leading digits are read; without a
\* digit v keeps its old value.
ScanInt(raw, old) ==
    LET t == TrimLeft(raw)
        signed == t # <<>> /\ Head(t) \in {"-", "+"}
        u == IF signed THEN Tail(t) ELSE t
        n == LeadDigits(u)
        v == DecValue(SubSeq(u, 1, n))
    IN  IF n = 0 THEN old
        ELSE IF signed /\ Head(t) = "-" THEN 0 - v ELSE v

\* The decimal text of a small number, as a client writes it in the URL.
IntStr(n) ==
    LET d(k) == CHOOSE c \in Digits : DigitVal(c) = k
    IN  IF n < 0 THEN <<"-", d(0 - n)>> ELSE <<d(n)>>

\* Packets as QueuePacket gets them. The capture loop passes the record that
\* parsePacket returned, whose ID is 0.
Pkt(id, ts, src, dst, proto, host, sc, dc) ==
    [ID |-> id, Timestamp |-> ts, SrcIP |-> src, DstIP |-> dst,
     SrcPort |-> 443, DstPort |-> 50000, Protocol |-> proto, Length |-> 60,
     Info |-> <<"i">>, SrcMAC |-> <<"a">>, DstMAC |-> <<"b">>,
     Application |-> <<>>, SrcHostname |-> host, DstHostname |-> <<>>,
     SrcCountry |-> sc, DstCountry |-> dc, ProcessName |-> <<"p">>]

PacketSamples ==
    { Pkt(0, 1, IP1, IP2, TCP, <<>>, US, DE),
      Pkt(0, 2, IP2, IP12, UDP, <<"t">>, DE, <<>>),
      Pkt(7, 2, IP12, IP1, UDP, <<>>, <<>>, US) }

\* Flush: stmt.Exec(p.Timestamp, p.SrcIP, ..., p.ProcessName) into the sixteen
\* columns of the INSERT; id is the table's AUTOINCREMENT key.
InsertRow_swapCountry(id, p) ==
    [id |-> id, timestamp |-> p.Timestamp, src_ip |-> p.SrcIP,
     dst_ip |-> p.DstIP, src_port |-> p.SrcPort, dst_port |-> p.DstPort,
     protocol |-> p.Protocol, length |-> p.Length, info |-> p.Info,
     src_mac |-> p.SrcMAC, dst_mac |-> p.DstMAC,
     application |-> p.Application, src_hostname |-> p.SrcHostname,
     dst_hostname |-> p.DstHostname, src_country |-> p.DstCountry,
     dst_country |-> p.SrcCountry, process_name |-> p.ProcessName]
InsertRow(id, p) ==
    [id |-> id, timestamp |-> p.Timestamp, src_ip |-> p.SrcIP,
     dst_ip |-> p.DstIP, src_port |-> p.SrcPort, dst_port |-> p.DstPort,
     protocol |-> p.Protocol, length |-> p.Length, info |-> p.Info,
     src_mac |-> p.SrcMAC, dst_mac |-> p.DstMAC,
     application |-> p.Application, src_hostname |-> p.SrcHostname,
     dst_hostname |-> p.DstHostname, src_country |-> p.SrcCountry,
     dst_country |-> p.DstCountry, process_name |-> p.ProcessName]

\* A row written before the process_name column was added by the migration:
\* ALTER TABLE ... ADD COLUMN leaves it NULL.
LegacyRow ==
    [InsertRow(1, Pkt(0, 1, IP2, IP2, TCP, <<>>, DE, DE))
       EXCEPT !.process_name = Null]

\* sql.NullString: NULL scans as the empty string.
NullString(v) == IF v = Null THEN <<>> ELSE v

\* rows.Scan into a plain string field fails on NULL; the row is logged and
\* skipped. (The numeric columns and the timestamp are never NULL here.)
ScanFails(r) ==
    \E c \in {r.src_ip, r.dst_ip, r.protocol, r.info, r.src_mac, r.dst_mac,
              r.application} : c = Null

\* rows.Scan(&p.ID, &p.Timestamp, ...) and the five NullString copies
ScanRow(r) ==
    [ID |-> r.id, Timestamp |-> r.timestamp, SrcIP |-> r.src_ip,
     DstIP |-> r.dst_ip, SrcPort |-> r.src_port, DstPort |-> r.dst_port,
     Protocol |-> r.protocol, Length |-> r.length, Info |-> r.info,
     SrcMAC |-> r.src_mac, DstMAC |-> r.dst_mac,
     Application |-> r.application,
     SrcHostname |-> NullString(r.src_hostname),
     DstHostname |-> NullString(r.dst_hostname),
     SrcCountry |-> NullString(r.src_country),
     DstCountry |-> NullString(r.dst_country),
     ProcessName |-> NullString(r.process_name)]

\* The WHERE clause QueryPackets builds; a is the record of its arguments.
WhereTime(r, a) ==
    /\ a.startTime # NoTime => r.timestamp >= a.startTime
    /\ a.endTime # NoTime => r.timestamp <= a.endTime

WhereFilter(r, a) ==
    a.filter # <<>> =>
       \/ Like(r.src_ip, a.filter)
       \/ Like(r.dst_ip, a.filter)
       \/ Like(r.protocol, a.filter)
       \/ Like(r.application, a.filter)
       \/ Like(r.src_hostname, a.filter)
       \/ Like(r.dst_hostname, a.filter)
       \/ Like(r.info, a.filter)

WhereCountry_srcOnly(r, a) ==
    a.country # <<>> => r.src_country = a.country
WhereCountry(r, a) ==
    a.country # <<>> =>
       (r.src_country = a.country \/ r.dst_country = a.country)

WhereExclude(r, a) ==
    \A i \in DOMAIN a.excludeIPs :
       LET ip == TrimSpace(a.excludeIPs[i])
       IN  ip # <<>> => (r.src_ip # ip /\ r.dst_ip # ip)

Where(r, a) ==
    /\ WhereTime(r, a)
    /\ WhereFilter(r, a)
    /\ WhereCountry(r, a)
    /\ WhereExclude(r, a)

\* SELECT COUNT(*) FROM packets WHERE ...
SqlCount(t, a) == Cardinality({i \in DOMAIN t : Where(t[i], a)})

\* The orders SELECT ... ORDER BY timestamp DESC can deliver the matching
\* rows in: any order of their positions with timestamps not increasing (SQL
\* leaves the order of rows with equal timestamps open).
SqlOrders(t, a) ==
    LET M == {i \in DOMAIN t : Where(t[i], a)}
        n == Cardinality(M)
    IN  {o \in [1..n -> M] :
           /\ \A i, j \in 1..n : i # j => o[i] # o[j]
           /\ \A i, j \in 1..n :
                 i < j => t[o[i]].timestamp >= t[o[j]].timestamp}

\* LIMIT ? OFFSET ? on n ordered rows: the positions delivered. SQLite takes a
\* negative LIMIT as no limit and a negative OFFSET as 0.
SqlPage_fromStart(n, limit, offset) ==
    LET off == IF offset < 0 THEN 0 ELSE offset
        lim == IF limit < 0 THEN n ELSE limit
    IN  (off + 1)..Min(lim, n)
SqlPage(n, limit, offset) ==
    LET off == IF offset < 0 THEN 0 ELSE offset
        lim == IF limit < 0 THEN n ELSE limit
    IN  (off + 1)..Min(off + lim, n)

\* for rows.Next() { Scan; on error continue; packets = append(packets, p) }
RECURSIVE ScanAll(_)
ScanAll(rs) ==
    IF rs = <<>> THEN <<>>
    ELSE IF ScanFails(Head(rs)) THEN ScanAll(Tail(rs))
    ELSE <<ScanRow(Head(rs))>> \o ScanAll(Tail(rs))

\* The rows of order o that the page delivers, as a sequence.
PageRows(t, o, limit, offset) ==
    LET pg == SqlPage(Len(o), limit, offset)
        k == Cardinality(pg)
        off == IF offset < 0 THEN 0 ELSE offset
    IN  [i \in 1..k |-> t[o[off + i]]]

NoRequest == [kind |-> "call"]

InitQueryState ==
    /\ table = <<>>
    /\ queuedOf = <<>>
    /\ qpc = "idle"
    /\ qreq = NoRequest
    /\ qargs = NoRequest
    /\ qtotal = 0
    /\ qpackets = <<>>
    /\ tCount = <<>>
    /\ tSelect = <<>>

\* QueuePacket(p) followed by a Flush that inserts p and commits: one more
\* row, with the next AUTOINCREMENT id.
StorePacket(p) ==
    /\ Len(queuedOf) < MaxRows
    /\ LET id == IF table = <<>> THEN 1 ELSE table[Len(table)].id + 1
       IN  /\ table' = Append(table, InsertRow(id, p))
           /\ queuedOf' = Append(queuedOf, [id |-> id, p |-> p])
    /\ UNCHANGED <<qpc, qreq, qargs, qtotal, qpackets, tCount, tSelect>>
    /\ UNCHANGED <<storeVars, capVars, wsVars, dbVars, resVars, sideVars>>

\* A call QueryPackets(limit, offset, filter, country, excludeIPs, startTime,
\* endTime) up to the COUNT statement.
QueryCall(a) ==
    /\ qpc = "idle"
    /\ qreq' = NoRequest
    /\ qargs' = a
    /\ qpc' = "count"
    /\ qtotal' = 0
    /\ qpackets' = <<>>
    /\ tCount' = <<>>
    /\ tSelect' = <<>>
    /\ UNCHANGED <<table, queuedOf>>
    /\ UNCHANGED <<storeVars, capVars, wsVars, dbVars, resVars, sideVars>>

\* /api/history: limit := 100; if the parameter is present, Sscanf it and
\* clamp it to 1000 from above.
HistoryLimit(raw) ==
    IF raw # <<>>
    THEN LET l == ScanInt(raw, DefaultLimit)
         IN  IF l > MaxLimit THEN MaxLimit ELSE l
    ELSE DefaultLimit

\* /api/history: offset := 0; if the parameter is present, Sscanf it.
HistoryOffset(raw) == IF raw # <<>> THEN ScanInt(raw, 0) ELSE 0

\* /api/history: time.Parse(time.RFC3339, s); the pointer stays nil when the
\* parameter is absent or does not parse.
HistoryTime(raw) == IF raw.kind = "ok" THEN raw.t ELSE NoTime

\* /api/history: the arguments of its QueryPackets call. The handler reads
\* limit, offset, filter, start, end and exclude; it never reads "country", and
\* its call passes no country.
HistoryArgs(req) ==
    [limit |-> HistoryLimit(req.limit),
     offset |-> HistoryOffset(req.offset),
     filter |-> req.filter,
     country |-> <<>>,
     excludeIPs |-> IF req.exclude # <<>> THEN Split(req.exclude, ",")
                    ELSE <<>>,
     startTime |-> HistoryTime(req.start),
     endTime |-> HistoryTime(req.end)]

\* GET /api/history?...: the handler up to the COUNT statement of its
\* QueryPackets call.
HistoryRequest(req) ==
    /\ qpc = "idle"
    /\ qreq' = req
    /\ qargs' = HistoryArgs(req)
    /\ qpc' = "count"
    /\ qtotal' = 0
    /\ qpackets' = <<>>
    /\ tCount' = <<>>
    /\ tSelect' = <<>>
    /\ UNCHANGED <<table, queuedOf>>
    /\ UNCHANGED <<storeVars, capVars, wsVars, dbVars, resVars, sideVars>>

\* QueryPackets: d.db.QueryRow(countQuery, args...).Scan(&total); on error
\* return nil, 0, err.
QueryCount ==
    /\ qpc = "count"
    /\ \E ok \in BOOLEAN :
          IF ok
          THEN /\ qtotal' = SqlCount(table, qargs)
               /\ tCount' = table
               /\ qpc' = "select"
          ELSE /\ qpc' = "error"
               /\ UNCHANGED <<qtotal, tCount>>
    /\ UNCHANGED <<table, queuedOf, qreq, qargs, qpackets, tSelect>>
    /\ UNCHANGED <<storeVars, capVars, wsVars, dbVars, resVars, sideVars>>

\* QueryPackets: the SELECT with ORDER BY, LIMIT and OFFSET, the scan loop,
\* return packets, total, nil; on a query error return nil, 0, err.
QuerySelect ==
    /\ qpc = "select"
    /\ \E ok \in BOOLEAN :
          IF ok
          THEN /\ \E o \in SqlOrders(table, qargs) :
                     qpackets' = ScanAll(PageRows(table, o, qargs.limit,
                                                  qargs.offset))
               /\ tSelect' = table
               /\ qpc' = "done"
               /\ UNCHANGED qtotal
          ELSE /\ qpc' = "error"
               /\ qtotal' = 0
               /\ UNCHANGED <<qpackets, tSelect>>
    /\ UNCHANGED <<table, queuedOf, qreq, qargs, tCount>>
    /\ UNCHANGED <<storeVars, capVars, wsVars, dbVars, resVars, sideVars>>

\* The arguments the calls of QueryPackets are tried with.
CallArgs ==
    [limit : {-1, 0, 1, MaxRows + 1},
     offset : {-1, 0, 1},
     filter : {<<>>, <<"t">>},
     country : {<<>>, US, DE},
     excludeIPs : {<<>>, <<IP1>>, <<<<" ", "2">>, <<>>>>},
     startTime : {NoTime},
     endTime : {NoTime}]
    \cup
    [limit : {MaxRows + 1},
     offset : {0},
     filter : {<<>>},
     country : {<<>>, US},
     excludeIPs : {<<>>},
     startTime : {NoTime, 2},
     endTime : {NoTime, 1}]

\* The requests GET /api/history is tried with.
Requests ==
    [kind : {"api"},
     limit : {<<>>, <<"x">>, IntStr(-1), IntStr(0), IntStr(MaxLimit),
              IntStr(MaxLimit + 1)},
     offset : {<<>>, IntStr(1)},
     filter : {<<>>},
     country : {<<>>, US},
     exclude : {<<>>, <<"1", ",", " ", "2">>},
     start : {[kind |-> "absent"], [kind |-> "bad"], [kind |-> "ok", t |-> 2]},
     end : {[kind |-> "absent"]}]

\* ------------------------------------------------------------ IP-info cache
\* Addresses as net.ParseIP yields them: an IPv4 address by its four bytes, an
\* IPv6 address hi::lo by its first and its last 16-bit group (the groups
\* between are zero), or nil for a text that is no address.
V4(a, b, c, d) == [v |-> 4, b |-> <<a, b, c, d>>]
V6(hi, lo) == [v |-> 6, hi |-> hi, lo |-> lo]
NotAnIP == [v |-> 0]

\* ip.IsLoopback(): 127.0.0.0/8 and ::1
IsLoopback(ip) ==
    \/ ip.v = 4 /\ ip.b[1] = 127
    \/ ip.v = 6 /\ ip.hi = 0 /\ ip.lo = 1

\* ip.IsLinkLocalUnicast(): 169.254.0.0/16 and fe80::/10
IsLinkLocalUnicast(ip) ==
    \/ ip.v = 4 /\ ip.b[1] = 169 /\ ip.b[2] = 254
    \/ ip.v = 6 /\ ip.hi \div 64 = 1018

\* ip.IsLinkLocalMulticast(): 224.0.0.0/24 and ff02::/16
IsLinkLocalMulticast(ip) ==
    \/ ip.v = 4 /\ ip.b[1] = 224 /\ ip.b[2] = 0 /\ ip.b[3] = 0
    \/ ip.v = 6 /\ ip.hi = 65282

\* network.Contains(ip) for the five privateRanges
InPrivateRanges_no172(ip) ==
    \/ ip.v = 4 /\ ip.b[1] = 10
    \/ ip.v = 4 /\ ip.b[1] = 192 /\ ip.b[2] = 168
    \/ ip.v = 6 /\ ip.hi \div 512 = 126
    \/ ip.v = 6 /\ ip.hi \div 64 = 1018
InPrivateRanges(ip) ==
    \/ ip.v = 4 /\ ip.b[1] = 10
    \/ ip.v = 4 /\ ip.b[1] = 172 /\ ip.b[2] \div 16 = 1
    \/ ip.v = 4 /\ ip.b[1] = 192 /\ ip.b[2] = 168
    \/ ip.v = 6 /\ ip.hi \div 512 = 126
    \/ ip.v = 6 /\ ip.hi \div 64 = 1018

isPrivateIP(ip) ==
    \/ IsLoopback(ip)
    \/ IsLinkLocalUnicast(ip)
    \/ IsLinkLocalMulticast(ip)
    \/ InPrivateRanges(ip)

\* 10.1.2.3, 172.16.0.1, 172.31.255.1, 192.168.1.1, 127.0.0.1, 169.254.1.1,
\* fe80::1, fd00::1
PrivateSamples ==
    { V4(10, 1, 2, 3), V4(172, 16, 0, 1), V4(172, 31, 255, 1),
      V4(192, 168, 1, 1), V4(127, 0, 0, 1), V4(169, 254, 1, 1),
      V6(65152, 1), V6(64768, 1) }

\* 8.8.8.8, 172.32.0.1, 2001:db8::1
PublicSamples == { V4(8, 8, 8, 8), V4(172, 32, 0, 1), V6(8193, 1) }

IPSamples == PrivateSamples \cup PublicSamples \cup {NotAnIP}

Resolvers == 1..MaxResolves

\* IPInfo{} and the value of a sync.Map entry (absent, or an IPInfo)
NoInfo == [Hostname |-> "", Country |-> ""]
Absent == [present |-> FALSE]
Entry(info) ==
    [present |-> TRUE, Hostname |-> info.Hostname, Country |-> info.Country]

\* getIPInfo(ip): the cached IPInfo, or IPInfo{}
getIPInfo(c) ==
    IF c.present THEN [Hostname |-> c.Hostname, Country |-> c.Country]
    ELSE NoInfo

InitResolveState ==
    /\ rip = NotAnIP
    /\ cache = Absent
    /\ rpc = [r \in Resolvers |-> "none"]
    /\ retry = [r \in Resolvers |-> FALSE]
    /\ dpc = [r \in Resolvers |-> "none"]
    /\ dloc = [r \in Resolvers |-> NoInfo]
    /\ gpc = [r \in Resolvers |-> "none"]
    /\ gloc = [r \in Resolvers |-> NoInfo]
    /\ nGeoRequests = 0
    /\ dnsOK = {}
    /\ geoOK = {}

\* Every goroutine of the earlier resolve calls has finished.
Settled(r) ==
    \A q \in Resolvers :
       q < r => /\ rpc[q] \in {"done", "hit", "skip"}
                /\ dpc[q] \in {"none", "done"}
                /\ gpc[q] \in {"none", "done"}

\* parsePacket for a packet with this IP as source (or destination):
\* getIPInfo, and go resolveIPInfo(ip) if hostname and country are both empty.
DecodePacket(r) ==
    /\ rpc[r] = "none"
    /\ \A q \in Resolvers : q < r => rpc[q] # "none"
    /\ LET info == getIPInfo(cache)
       IN  IF info.Hostname = "" /\ info.Country = ""
           THEN /\ rpc' = [rpc EXCEPT ![r] = "load"]
                /\ retry' = [retry EXCEPT ![r] = cache.present /\ Settled(r)]
           ELSE /\ rpc' = [rpc EXCEPT ![r] = "skip"]
                /\ UNCHANGED retry
    /\ UNCHANGED <<rip, cache, dpc, dloc, gpc, gloc, nGeoRequests, dnsOK,
                   geoOK>>
    /\ UNCHANGED <<storeVars, capVars, wsVars, dbVars, qVars, sideVars>>

\* resolveIPInfo: if cached, ok := ipInfoCache.Load(ip); ok { return }
ResolveLoad(r) ==
    /\ rpc[r] = "load"
    /\ rpc' = [rpc EXCEPT ![r] = IF cache.present THEN "hit" ELSE "parse"]
    /\ UNCHANGED <<rip, cache, retry, dpc, dloc, gpc, gloc, nGeoRequests,
                   dnsOK, geoOK>>
    /\ UNCHANGED <<storeVars, capVars, wsVars, dbVars, qVars, sideVars>>

\* resolveIPInfo: net.ParseIP; nil: store IPInfo{} and return; else start the
\* reverse-DNS goroutine.
ResolveParse(r) ==
    /\ rpc[r] = "parse"
    /\ IF rip.v = 0
       THEN /\ cache' = Entry(NoInfo)
            /\ rpc' = [rpc EXCEPT ![r] = "done"]
            /\ UNCHANGED dpc
       ELSE /\ dpc' = [dpc EXCEPT ![r] = "lookup"]
            /\ rpc' = [rpc EXCEPT ![r] = "check"]
            /\ UNCHANGED cache
    /\ UNCHANGED <<rip, retry, dloc, gpc, gloc, nGeoRequests, dnsOK, geoOK>>
    /\ UNCHANGED <<storeVars, capVars, wsVars, dbVars, qVars, sideVars>>

\* resolveIPInfo: if isPrivateIP: store {Country: "Local"} and return; else
\* start the GeoIP goroutine.
ResolveCheckPrivate(r) ==
    /\ rpc[r] = "check"
    /\ IF isPrivateIP(rip)
       THEN /\ cache' = Entry([Hostname |-> "", Country |-> "Local"])
            /\ rpc' = [rpc EXCEPT ![r] = "done"]
            /\ UNCHANGED gpc
       ELSE /\ gpc' = [gpc EXCEPT ![r] = "get"]
            /\ rpc' = [rpc EXCEPT ![r] = "store"]
            /\ UNCHANGED cache
    /\ UNCHANGED <<rip, retry, dpc, dloc, gloc, nGeoRequests, dnsOK, geoOK>>
    /\ UNCHANGED <<storeVars, capVars, wsVars, dbVars, qVars, sideVars>>

\* resolveIPInfo: ipInfoCache.Store(ip, info) with the empty info; return.
ResolveStore(r) ==
    /\ rpc[r] = "store"
    /\ cache' = Entry(NoInfo)
    /\ rpc' = [rpc EXCEPT ![r] = "done"]
    /\ UNCHANGED <<rip, retry, dpc, dloc, gpc, gloc, nGeoRequests, dnsOK,
                   geoOK>>
    /\ UNCHANGED <<storeVars, capVars, wsVars, dbVars, qVars, sideVars>>

\* reverse-DNS goroutine: names, err := net.LookupAddr(ipAddr); it goes on
\* only with err == nil and a name.
DnsLookup(r) ==
    /\ dpc[r] = "lookup"
    /\ \E ok \in BOOLEAN :
          /\ dpc' = [dpc EXCEPT ![r] = IF ok THEN "load" ELSE "done"]
          /\ dnsOK' = IF ok THEN dnsOK \cup {r} ELSE dnsOK
    /\ UNCHANGED <<rip, cache, rpc, retry, dloc, gpc, gloc, nGeoRequests,
                   geoOK>>
    /\ UNCHANGED <<storeVars, capVars, wsVars, dbVars, qVars, sideVars>>

\* reverse-DNS goroutine: if cached, ok := ipInfoCache.Load(ipAddr); ok {
\* existing := cached.(IPInfo) ... }; without an entry the name is dropped.
DnsLoad(r) ==
    /\ dpc[r] = "load"
    /\ IF cache.present
       THEN /\ dloc' = [dloc EXCEPT ![r] = getIPInfo(cache)]
            /\ dpc' = [dpc EXCEPT ![r] = "store"]
       ELSE /\ dpc' = [dpc EXCEPT ![r] = "done"]
            /\ UNCHANGED dloc
    /\ UNCHANGED <<rip, cache, rpc, retry, gpc, gloc, nGeoRequests, dnsOK,
                   geoOK>>
    /\ UNCHANGED <<storeVars, capVars, wsVars, dbVars, qVars, sideVars>>

\* reverse-DNS goroutine: existing.Hostname = names[0];
\* ipInfoCache.Store(ipAddr, existing)
DnsStore(r) ==
    /\ dpc[r] = "store"
    /\ cache' = Entry([dloc[r] EXCEPT !.Hostname = "host"])
    /\ dloc' = [dloc EXCEPT ![r] = NoInfo]
    /\ dpc' = [dpc EXCEPT ![r] = "done"]
    /\ UNCHANGED <<rip, rpc, retry, gpc, gloc, nGeoRequests, dnsOK, geoOK>>
    /\ UNCHANGED <<storeVars, capVars, wsVars, dbVars, qVars, sideVars>>

\* GeoIP goroutine: client.Get(...), decode; it goes on only when the request
\* and the decoding succeed and result.Status == "success".
GeoGet(r) ==
    /\ gpc[r] = "get"
    /\ nGeoRequests' = nGeoRequests + 1
    /\ \E ok \in BOOLEAN :
          /\ gpc' = [gpc EXCEPT ![r] = IF ok THEN "load" ELSE "done"]
          /\ geoOK' = IF ok THEN geoOK \cup {r} ELSE geoOK
    /\ UNCHANGED <<rip, cache, rpc, retry, dpc, dloc, gloc, dnsOK>>
    /\ UNCHANGED <<storeVars, capVars, wsVars, dbVars, qVars, sideVars>>

\* GeoIP goroutine: if cached, ok := ipInfoCache.Load(ipAddr); ok { existing
\* := cached.(IPInfo) ... } else { ... }
GeoLoad(r) ==
    /\ gpc[r] = "load"
    /\ IF cache.present
       THEN /\ gloc' = [gloc EXCEPT ![r] = getIPInfo(cache)]
            /\ gpc' = [gpc EXCEPT ![r] = "store"]
       ELSE /\ gpc' = [gpc EXCEPT ![r] = "storeNew"]
            /\ UNCHANGED gloc
    /\ UNCHANGED <<rip, cache, rpc, retry, dpc, dloc, nGeoRequests, dnsOK,
                   geoOK>>
    /\ UNCHANGED <<storeVars, capVars, wsVars, dbVars, qVars, sideVars>>

\* GeoIP goroutine: existing.Country = result.CountryCode; Store(existing),
\* or Store(IPInfo{Country: result.CountryCode}) when there was no entry.
GeoStore(r) ==
    /\ gpc[r] \in {"store", "storeNew"}
    /\ cache' = IF gpc[r] = "store"
                THEN Entry([gloc[r] EXCEPT !.Country = "US"])
                ELSE Entry([Hostname |-> "", Country |-> "US"])
    /\ gloc' = [gloc EXCEPT ![r] = NoInfo]
    /\ gpc' = [gpc EXCEPT ![r] = "done"]
    /\ UNCHANGED <<rip, rpc, retry, dpc, dloc, nGeoRequests, dnsOK, geoOK>>
    /\ UNCHANGED <<storeVars, capVars, wsVars, dbVars, qVars, sideVars>>

\* ------------------------------------------------- the store's statistics
\* Texts are sequences of characters, as in the history API.
ICMP == <<"I">>
\* "::1", a loopback address, and "8.8", a public one.
IPLo == <<":", ":", "1">>
IPPub == <<"8", ".", "8">>
StatIPs == {IPLo, IPPub}

\* What resolveIPInfo finds for an address: "Local" for a private one, the
\* GeoIP answer for a public one.
TrueCountry(ip) == IF ip = IPLo THEN "Local" ELSE "US"

\* The frames the packet source delivers: addresses, ports, protocol.
Shape(src, sp, dst, dp, proto) ==
    [SrcIP |-> src, SrcPort |-> sp, DstIP |-> dst, DstPort |-> dp,
     Protocol |-> proto]

PingShape == Shape(IPLo, 0, IPLo, 0, ICMP)

StatShapes ==
    { PingShape,
      Shape(IPLo, 5, IPPub, 8, TCP),
      Shape(IPPub, 8, IPLo, 5, TCP),
      Shape(IPLo, 0, IPPub, 5, UDP) }

\* parsePacket: the frame's fields, and hostname and country from the cache
\* (both stay empty when the cache has neither for the address).
StatPkt(f, sh, len, ts, ch) ==
    [ID |-> 0, frame |-> f, Length |-> len, Timestamp |-> ts,
     SrcIP |-> sh.SrcIP, SrcPort |-> sh.SrcPort,
     DstIP |-> sh.DstIP, DstPort |-> sh.DstPort, Protocol |-> sh.Protocol,
     SrcCountry |-> ch[sh.SrcIP].Country, DstCountry |-> ch[sh.DstIP].Country]

\* m[k] += v on a Go map of integers
MapAdd(m, k, v) ==
    IF k \in DOMAIN m THEN [m EXCEPT ![k] = @ + v] ELSE m @@ (k :> v)

\* if p.SrcCountry != "" { CountryStats[p.SrcCountry] += int64(p.Length) }
\* if p.DstCountry != "" { CountryStats[p.DstCountry] += int64(p.Length) }
TrackCountry(cs, p) ==
    LET a == IF p.SrcCountry # "" THEN MapAdd(cs, p.SrcCountry, p.Length)
             ELSE cs
    IN  IF p.DstCountry # "" THEN MapAdd(a, p.DstCountry, p.Length) ELSE a

\* if p.SrcIP != "" { ipStats[p.SrcIP].packets++; .bytes += p.Length }
TrackIP(ips, p) ==
    IF p.SrcIP = <<>> THEN ips
    ELSE IF p.SrcIP \in DOMAIN ips
         THEN [ips EXCEPT ![p.SrcIP] = [packets |-> @.packets + 1,
                                        bytes |-> @.bytes + p.Length]]
         ELSE ips @@ (p.SrcIP :> [packets |-> 1, bytes |-> p.Length])

\* fmt.Sprintf("%s:%d->%s:%d/%s", SrcIP, SrcPort, DstIP, DstPort, Protocol)
ConnKey(p) ==
    p.SrcIP \o <<":">> \o IntStr(p.SrcPort) \o <<"-", ">">> \o
    p.DstIP \o <<":">> \o IntStr(p.DstPort) \o <<"/">> \o p.Protocol

NewConnection(p) ==
    [SrcIP |-> p.SrcIP, DstIP |-> p.DstIP, SrcPort |-> p.SrcPort,
     DstPort |-> p.DstPort, Protocol |-> p.Protocol, Packets |-> 1,
     Bytes |-> p.Length, FirstSeen |-> p.Timestamp, LastSeen |-> p.Timestamp,
     State |-> "active"]

\* conn.Packets++; conn.Bytes += int64(p.Length); conn.LastSeen = p.Timestamp
UpdateConnection(conn, p) ==
    [conn EXCEPT !.Packets = @ + 1, !.Bytes = @ + p.Length,
                 !.LastSeen = p.Timestamp]

\* if p.SrcPort > 0 || p.DstPort > 0 { ... }
TrackConn_anyPacket(cn, p) ==
    LET k == ConnKey(p)
    IN  IF k \in DOMAIN cn
        THEN [cn EXCEPT ![k] = UpdateConnection(@, p)]
        ELSE cn @@ (k :> NewConnection(p))
TrackConn(cn, p) ==
    IF p.SrcPort > 0 \/ p.DstPort > 0
    THEN LET k == ConnKey(p)
         IN  IF k \in DOMAIN cn
             THEN [cn EXCEPT ![k] = UpdateConnection(@, p)]
             ELSE cn @@ (k :> NewConnection(p))
    ELSE cn

\* for len(w) > 0 && w[0].Before(cutoff) { w = w[1:] }: how many are dropped
RECURSIVE DropCount(_, _)
DropCount(w, cutoff) ==
    IF w # <<>> /\ Head(w) < cutoff THEN 1 + DropCount(Tail(w), cutoff) ELSE 0

DropHead(w, n) == SubSeq(w, n + 1, Len(w))

RECURSIVE SumSeq(_)
SumSeq(b) == IF b = <<>> THEN 0 ELSE Head(b) + SumSeq(Tail(b))

\* The rate window after an add at time t of a packet of length len.
WindowAfter(pw, bw, t, len) ==
    LET w == Append(pw, t)
        b == Append(bw, len)
        n == DropCount(w, t - WindowSecs)
    IN  [times |-> DropHead(w, n), bytes |-> DropHead(b, n)]

\* if len(w) > 0 { duration := now.Sub(w[0]).Seconds(); if duration > 0 {...} }
RatesComputed(win, t) == Len(win.times) > 0 /\ t - win.times[1] > 0

RatesAfter(old, win, t) ==
    IF RatesComputed(win, t)
    THEN [pps |-> <<Len(win.times), t - win.times[1]>>,
          bps |-> <<SumSeq(win.bytes), t - win.times[1]>>]
    ELSE old

NoRate == <<0, 1>>

\* NewPacketStore: the empty maps and windows; the cache holds nothing.
InitStatState ==
    /\ now = 0
    /\ countryStats = <<>>
    /\ ipStats = <<>>
    /\ connections = <<>>
    /\ packetsWindow = <<>>
    /\ bytesWindow = <<>>
    /\ rates = [pps |-> NoRate, bps |-> NoRate]
    /\ statCache = [ip \in StatIPs |-> NoInfo]
    /\ gotStats = <<>>
    /\ protocolStats = <<>>
    /\ marshal = <<>>
    /\ gotConns = <<>>
    /\ added = <<>>
    /\ rateFrom = <<>>

\* ps.stats.ProtocolStats[p.Protocol]++ while a json.Marshal iterates the same
\* map without the lock is a data race: the outcome of that Marshal is
\* undefined (the Go runtime may also abort the process).
WriteDuring(ms) ==
    [i \in DOMAIN ms |-> IF ms[i] = "iter" THEN "raced" ELSE ms[i]]

\* parsePacket and store.AddPacket(p) for a frame of shape sh, length len and
\* capture timestamp ts arriving d seconds after the previous add.
AddPacketAt(sh, len, ts, d) ==
    LET t   == now + d
        p   == StatPkt(nCalls + 1, sh, len, ts, statCache)
        win == WindowAfter(packetsWindow, bytesWindow, t, len)
    IN  /\ ~panicked
        /\ MuFree
        /\ nCalls' = nCalls + 1
        /\ now' = t
        /\ StoreAdd(p)
        /\ countryStats' = TrackCountry(countryStats, p)
        /\ ipStats' = TrackIP(ipStats, p)
        /\ connections' = TrackConn(connections, p)
        /\ packetsWindow' = win.times
        /\ bytesWindow' = win.bytes
        /\ rates' = RatesAfter(rates, win, t)
        /\ rateFrom' = IF RatesComputed(win, t) THEN win.times ELSE rateFrom
        /\ added' = Append(added, [p |-> [p EXCEPT !.ID = packetID'], at |-> t])
        /\ protocolStats' = MapAdd(protocolStats, p.Protocol, 1)
        /\ marshal' = WriteDuring(marshal)
        /\ UNCHANGED <<statCache, gotStats, gotConns>>
        /\ UNCHANGED <<maxPackets, mu, spc, sarg, lastGet, lastLimit,
                       lockOrder>>
        /\ UNCHANGED <<capVars, wsVars, dbVars, qVars, resVars, capHist, appVars, bootVars>>

\* Traffic of every shape, one second apart.
StatAddPacket ==
    /\ nCalls < MaxStatAdds
    /\ \E sh \in StatShapes, len \in 1..MaxStatLen, ts \in 1..MaxStamp :
          AddPacketAt(sh, len, ts, 1)

\* Pings arriving back to back, a second apart, or after a pause longer than
\* the rate window.
Gaps == {0, 1, WindowSecs + 1}

RateAddPacket ==
    /\ nCalls < MaxRateAdds
    /\ \E len \in 1..MaxStatLen, d \in Gaps :
          AddPacketAt(PingShape, len, 1, d)

\* resolveIPInfo stores what it found for an address.
CacheResolve(ip) ==
    /\ statCache[ip].Country = ""
    /\ statCache' = [statCache EXCEPT ![ip].Country = TrueCountry(ip)]
    /\ UNCHANGED <<now, countryStats, ipStats, connections, packetsWindow,
                   bytesWindow, rates, gotStats, gotConns, added, rateFrom,
                   protocolStats, marshal>>
    /\ UNCHANGED <<storeVars, capVars, wsVars, dbVars, qVars, resVars, capHist, appVars, bootVars>>

\* sort.Slice(x, func(i, j) { return x[i].Bytes > x[j].Bytes }) over the
\* values of a map: range yields them in any order and the sort is not
\* stable, so every arrangement with non-increasing Bytes can come out.
SortedByBytes(S) ==
    { o \in [1..Cardinality(S) -> S] :
         /\ \A i, j \in DOMAIN o : i # j => o[i] # o[j]
         /\ \A i, j \in DOMAIN o : i < j => o[i].Bytes >= o[j].Bytes }

\* if len(x) > n { x = x[:n] }
KeepTop(o, n) == IF Len(o) > n THEN SubSeq(o, 1, n) ELSE o

Talker(ip, ips, ch) ==
    [IP |-> ip, Packets |-> ips[ip].packets, Bytes |-> ips[ip].bytes,
     Hostname |-> ch[ip].Hostname, Country |-> ch[ip].Country]

\* GetStats: countryStats[info.Country] += stats.bytes over ps.ipStats
CountryFromIPs(ips, ch) ==
    LET cs == {ch[ip].Country : ip \in DOMAIN ips} \ {""}
        ipsOf(c) == {ip \in DOMAIN ips : ch[ip].Country = c}
        RECURSIVE Sum(_)
        Sum(S) == IF S = {} THEN 0
                  ELSE LET x == CHOOSE y \in S : TRUE
                       IN  ips[x].bytes + Sum(S \ {x})
    IN  [c \in cs |-> Sum(ipsOf(c))]

\* stats := ps.stats copies the struct: the counters by value, the map fields
\* ProtocolStats and ApplicationStats as references to the store's own maps.
StoreProtocolStats == "ps.stats.ProtocolStats"

\* The contents of the map a reference points to.
MapOf(ref) == IF ref = StoreProtocolStats THEN protocolStats ELSE <<>>

\* GetStats(), under ps.mu.RLock
GetStatsCall ==
    /\ ~panicked
    /\ Len(gotStats) + Len(gotConns) < MaxGets
    /\ mu.writer = "none"
    /\ \E o \in SortedByBytes({Talker(ip, ipStats, statCache) :
                                  ip \in DOMAIN ipStats}) :
          gotStats' = Append(gotStats,
                        [TopTalkers |-> KeepTop(o, TopTalkers),
                         CountryStats |-> CountryFromIPs(ipStats, statCache),
                         TotalPackets |-> stats.TotalPackets,
                         PacketsPerSec |-> rates.pps,
                         BytesPerSec |-> rates.bps,
                         ProtocolStats |-> StoreProtocolStats,
                         copied |-> protocolStats,
                         read |-> <<ipStats, statCache, stats, rates>>])
    /\ marshal' = Append(marshal, "no")
    /\ UNCHANGED <<now, countryStats, ipStats, connections, packetsWindow,
                   bytesWindow, rates, statCache, gotConns, added, rateFrom,
                   protocolStats>>
    /\ UNCHANGED <<storeVars, capVars, wsVars, dbVars, qVars, resVars, capHist, appVars, bootVars>>

\* GetConnections(), under ps.mu.RLock
GetConnectionsCall ==
    /\ ~panicked
    /\ Len(gotStats) + Len(gotConns) < MaxGets
    /\ mu.writer = "none"
    /\ \E o \in SortedByBytes({connections[k] : k \in DOMAIN connections}) :
          gotConns' = Append(gotConns,
                        [Connections |-> KeepTop(o, TopConnections),
                         read |-> connections])
    /\ UNCHANGED <<now, countryStats, ipStats, connections, packetsWindow,
                   bytesWindow, rates, statCache, gotStats, added, rateFrom,
                   protocolStats, marshal>>
    /\ UNCHANGED <<storeVars, capVars, wsVars, dbVars, qVars, resVars, capHist, appVars, bootVars>>

\* store.Broadcast("stats", store.GetStats()): json.Marshal starts to walk the
\* returned value, its maps included, after GetStats released ps.mu.
MarshalBegin(i) ==
    /\ ~panicked
    /\ i \in DOMAIN marshal
    /\ marshal[i] = "no"
    /\ marshal' = [marshal EXCEPT ![i] = "iter"]
    /\ UNCHANGED <<now, countryStats, ipStats, connections, packetsWindow,
                   bytesWindow, rates, statCache, gotStats, gotConns, added,
                   rateFrom, protocolStats>>
    /\ UNCHANGED <<storeVars, capVars, wsVars, dbVars, qVars, resVars, capHist, appVars, bootVars>>

\* json.Marshal returns.
MarshalEnd(i) ==
    /\ ~panicked
    /\ i \in DOMAIN marshal
    /\ marshal[i] = "iter"
    /\ marshal' = [marshal EXCEPT ![i] = "done"]
    /\ UNCHANGED <<now, countryStats, ipStats, connections, packetsWindow,
                   bytesWindow, rates, statCache, gotStats, gotConns, added,
                   rateFrom, protocolStats>>
    /\ UNCHANGED <<storeVars, capVars, wsVars, dbVars, qVars, resVars, capHist, appVars, bootVars>>

\* ------------------------------------------------ application detection
\* The ports map of detectApplication.
WellKnownPorts ==
    (20 :> "FTP-Data") @@ (21 :> "FTP") @@ (22 :> "SSH") @@ (23 :> "Telnet") @@
    (25 :> "SMTP") @@ (53 :> "DNS") @@ (67 :> "DHCP") @@ (68 :> "DHCP") @@
    (80 :> "HTTP") @@ (110 :> "POP3") @@ (123 :> "NTP") @@ (143 :> "IMAP") @@
    (443 :> "HTTPS") @@ (465 :> "SMTPS") @@ (587 :> "SMTP") @@
    (993 :> "IMAPS") @@ (995 :> "POP3S") @@ (1194 :> "OpenVPN") @@
    (1883 :> "MQTT") @@ (3306 :> "MySQL") @@ (3389 :> "RDP") @@
    (5432 :> "PostgreSQL") @@ (5900 :> "VNC") @@ (6379 :> "Redis") @@
    (8080 :> "HTTP-Proxy") @@ (8443 :> "HTTPS-Alt") @@ (8883 :> "MQTT-TLS") @@
    (27017 :> "MongoDB")

\* Ports tried: every port of the map, and three that are not in it.
PortSamples == DOMAIN WellKnownPorts \cup {0, 1234, 50000}

\* if app, ok := ports[dstPort]; ok { return app }
\* if app, ok := ports[srcPort]; ok { return app }
\* return ""
detectApplication(srcPort, dstPort) ==
    IF dstPort \in DOMAIN WellKnownPorts THEN WellKnownPorts[dstPort]
    ELSE IF srcPort \in DOMAIN WellKnownPorts THEN WellKnownPorts[srcPort]
    ELSE ""

\* No frame is being decoded.
InitAppState ==
    /\ aSrc = 0
    /\ aDst = 0
    /\ aDns = FALSE
    /\ aApp = ""
    /\ apc = "parsed"

\* parsePacket: the DNS layer sets Application to "DNS"; if it is still empty,
\* p.Application = detectApplication(p.SrcPort, p.DstPort)
ParseApplication ==
    /\ apc = "frame"
    /\ aApp' = IF aDns THEN "DNS" ELSE detectApplication(aSrc, aDst)
    /\ apc' = "parsed"
    /\ UNCHANGED <<aSrc, aDst, aDns>>
    /\ UNCHANGED <<storeVars, capVars, wsVars, dbVars, qVars, resVars,
                   capHist, statVars, bootVars>>

\* ---------------------------------------------------------------- startup
\* The steps of NewDatabase that can return an error: sql.Open, the three
\* PRAGMAs, createTables, db.Prepare.
NewDatabaseSteps == <<"open", "wal", "busy", "sync", "tables", "prepare">>

StepIndex(pc) == CHOOSE i \in DOMAIN NewDatabaseSteps : NewDatabaseSteps[i] = pc

\* main is past startup and serving: the state of every other specification.
InitBootState ==
    /\ bootPath = ""
    /\ bootFail = 0
    /\ bootPc = "serve"
    /\ apiAnswers = <<>>

\* if *dbPath != "" { db, err = NewDatabase(*dbPath)
BootFlags ==
    /\ bootPc = "flags"
    /\ bootPc' = IF bootPath # "" THEN NewDatabaseSteps[1] ELSE "store"
    /\ UNCHANGED <<bootPath, bootFail, apiAnswers>>
    /\ UNCHANGED <<storeVars, capVars, wsVars, dbVars, qVars, resVars,
                   capHist, statVars, appVars>>

\* One step of NewDatabase: on an error it returns (nil, err); after the last
\* step it builds the Database, starts backgroundFlush and returns (d, nil).
NewDatabaseStep ==
    /\ bootPc \in Range(NewDatabaseSteps)
    /\ LET i == StepIndex(bootPc)
       IN  IF bootFail = i
           THEN /\ bootPc' = "failed"
                /\ UNCHANGED fpc
           ELSE IF i < Len(NewDatabaseSteps)
           THEN /\ bootPc' = NewDatabaseSteps[i + 1]
                /\ UNCHANGED fpc
           ELSE /\ bootPc' = "opened"
                /\ fpc' = "select"
    /\ UNCHANGED <<batchQueue, insertMu, flushChan, stopClosed, tickerStopped,
                   stmtClosed, dbClosed, rows, dbLock, fWake, fPackets, txRows,
                   stmtOK, cpc, tpc, nTrunc, nFaults, flushed, execFailed,
                   txFault, deleted>>
    /\ UNCHANGED <<bootPath, bootFail, apiAnswers>>
    /\ UNCHANGED <<storeVars, capVars, wsVars, qVars, resVars, capHist,
                   statVars, appVars>>

\* if err != nil { log.Printf("Warning: ... (continuing without database)");
\*                 db = nil } else { log.Printf(...); defer db.Close() }
BootAfterNewDatabase ==
    /\ bootPc \in {"failed", "opened"}
    /\ dbEnabled' = (bootPc = "opened")
    /\ bootPc' = "store"
    /\ UNCHANGED <<capPc, capP, nFrames, srcFrames>>
    /\ UNCHANGED <<bootPath, bootFail, apiAnswers>>
    /\ UNCHANGED <<storeVars, wsVars, dbVars, qVars, resVars, capHist,
                   statVars, appVars>>

\* store := NewPacketStore(...); go startCapture(iface, store, db); the
\* handlers are registered (if db != nil ... else the placeholder) and the
\* server listens.
BootServe ==
    /\ bootPc = "store"
    /\ bootPc' = "serve"
    /\ capPc' = "parse"
    /\ UNCHANGED <<dbEnabled, capP, nFrames, srcFrames>>
    /\ UNCHANGED <<bootPath, bootFail, apiAnswers>>
    /\ UNCHANGED <<storeVars, wsVars, dbVars, qVars, resVars, capHist,
                   statVars, appVars>>

\* GET /api/database: with a database, GetDatabaseInfo's answer with
\* enabled:true, or status 500 when it fails; without, the placeholder.
ApiDatabase ==
    /\ bootPc = "serve"
    /\ Len(apiAnswers) < MaxApiCalls
    /\ \E infoOK \in BOOLEAN :
          apiAnswers' = Append(apiAnswers,
             IF dbEnabled
             THEN IF infoOK THEN [status |-> 200, enabled |-> TRUE]
                  ELSE [status |-> 500]
             ELSE [status |-> 200, enabled |-> FALSE])
    /\ UNCHANGED <<bootPath, bootFail, bootPc>>
    /\ UNCHANGED <<storeVars, capVars, wsVars, dbVars, qVars, resVars,
                   capHist, statVars, appVars>>

\* ---------------------------------------------------------- specifications

\* The store alone, for any -max-packets.
InitStore ==
    /\ maxPackets \in 0..MaxRing
    /\ InitStoreState
    /\ InitCapture
    /\ InitStatState
    /\ InitAppState
    /\ InitBootState
    /\ srcFrames = 0
    /\ dbEnabled = FALSE
    /\ InitWS
    /\ InitDBState
    /\ InitQueryState
    /\ InitResolveState

NextStore ==
    \/ \E t \in Adders : AddPacketCall(t)
    \/ \E t \in Adders : AddPacketLock(t)
    \/ \E t \in Adders : AddPacketBody(t)
    \/ \E t \in Readers : GetPacketsLock(t)
    \/ \E t \in Readers : GetPacketsBody(t)

SpecStore == InitStore /\ [][NextStore]_vars

\* The store's statistics: traffic of several shapes, the resolver filling the
\* cache, and callers of GetStats and GetConnections.
InitStats ==
    /\ maxPackets = MaxRing
    /\ InitStoreState
    /\ InitCapture
    /\ InitStatState
    /\ InitAppState
    /\ InitBootState
    /\ srcFrames = 0
    /\ dbEnabled = FALSE
    /\ InitWS
    /\ InitDBState
    /\ InitQueryState
    /\ InitResolveState

NextStats ==
    \/ StatAddPacket
    \/ \E ip \in StatIPs : CacheResolve(ip)
    \/ GetStatsCall
    \/ GetConnectionsCall

SpecStats == InitStats /\ [][NextStats]_vars

\* The rate window: pings at varying intervals, and callers of GetStats.
NextRate ==
    \/ RateAddPacket
    \/ GetStatsCall

SpecRate == InitStats /\ [][NextRate]_vars

\* The stats ticker against the capture loop: GetStats, the marshalling of
\* what it returned, and AddPacket.
NextSnap ==
    \/ StatAddPacket
    \/ GetStatsCall
    \/ \E i \in 1..MaxGets : MarshalBegin(i)
    \/ \E i \in 1..MaxGets : MarshalEnd(i)

SpecSnap == InitStats /\ [][NextSnap]_vars

\* The process tracker: its update loop and a caller of GetProcessName.
NextTracker ==
    \/ PtScan
    \/ PtSwap
    \/ PtResolve
    \/ PtGetLock
    \/ PtGetBody

SpecTracker == InitStats /\ [][NextTracker]_vars

\* The decoder's application detection on one frame, for every pair of ports
\* tried, with and without a DNS layer.
InitApp ==
    /\ maxPackets = MaxRing
    /\ InitStoreState
    /\ InitCapture
    /\ InitStatState
    /\ srcFrames = 0
    /\ dbEnabled = FALSE
    /\ InitWS
    /\ InitDBState
    /\ InitQueryState
    /\ InitResolveState
    /\ InitBootState
    /\ aSrc \in PortSamples
    /\ aDst \in PortSamples
    /\ aDns \in BOOLEAN
    /\ aApp = ""
    /\ apc = "frame"

NextApp == ParseApplication

SpecApp == InitApp /\ [][NextApp]_vars

\* The pipeline with persistence disabled (-db ""): the capture loop, the
\* stats ticker and the WebSocket clients.
InitWS0 ==
    /\ maxPackets = MaxRing
    /\ InitStoreState
    /\ InitCapture
    /\ InitStatState
    /\ InitAppState
    /\ InitBootState
    /\ srcFrames = MaxFrames
    /\ dbEnabled = FALSE
    /\ InitWS
    /\ InitDBState
    /\ InitQueryState
    /\ InitResolveState

NextWS ==
    \/ CapParse
    \/ CapAddPacket
    \/ CapBroadcastBegin
    \/ TickBroadcastBegin
    \/ \E b \in Broadcasters, c \in Clients : BroadcastSend(b, c)
    \/ \E b \in Broadcasters : BroadcastEnd(b)
    \/ \E c \in Clients : HandlerRegister(c)
    \/ \E c \in Clients : HandlerSendInit(c)
    \/ \E c \in Clients : PeerClose(c)
    \/ \E c \in Clients : HandlerReadError(c)
    \/ \E c \in Clients : HandlerUnregister(c)
    \/ \E c \in Clients : HandlerClose(c)
    \/ \E c \in Clients : WriterRecv(c)
    \/ \E c \in Clients : WriterWrite(c)

SpecWS == InitWS0 /\ [][NextWS]_vars

\* The same pipeline with a single browser: the capture loop and the stats
\* ticker broadcast while one /ws handler and its writer goroutine run.
Browser == "c1"

HandlerWS1 ==
    \/ HandlerSendInit(Browser)
    \/ HandlerReadError(Browser)
    \/ HandlerUnregister(Browser)
    \/ HandlerClose(Browser)

WriterWS1 ==
    \/ WriterRecv(Browser)
    \/ WriterWrite(Browser)

BroadcastWS1 ==
    \/ \E b \in Broadcasters : BroadcastSend(b, Browser)
    \/ \E b \in Broadcasters : BroadcastEnd(b)

NextWS1 ==
    \/ CapParse
    \/ CapAddPacket
    \/ CapBroadcastBegin
    \/ TickBroadcastBegin
    \/ BroadcastWS1
    \/ HandlerRegister(Browser)
    \/ PeerClose(Browser)
    \/ HandlerWS1
    \/ WriterWS1

SpecWS1 == InitWS0 /\ [][NextWS1]_vars

\* Goroutines that can run do run: the handler (a read on a failed connection
\* returns its error, the deferred cleanup runs, clientsMu.Lock is granted
\* once the readers are gone), the writer goroutine, and a Broadcast that has
\* started finishes its loop.  Nothing forces a browser to connect, the peer to
\* go away, a frame to arrive or the ticker to fire.
FairSpecWS1 ==
    SpecWS1 /\ WF_vars(HandlerWS1) /\ WF_vars(WriterWS1) /\ WF_vars(BroadcastWS1)

\* The pipeline with persistence enabled and no WebSocket client: the capture
\* loop, the background writer, and callers of Close and Truncate.
InitDB ==
    /\ maxPackets = MaxRing
    /\ InitStoreState
    /\ InitCapture
    /\ InitStatState
    /\ InitAppState
    /\ InitBootState
    /\ srcFrames = MaxQueued
    /\ dbEnabled = TRUE
    /\ InitWS
    /\ InitDBState
    /\ InitQueryState
    /\ InitResolveState

CaptureDB ==
    \/ CapParse
    \/ CapAddPacket
    \/ CapQueueLock
    \/ CapQueueAppend
    \/ CapQueueSignal
    \/ CapBroadcastBegin
    \/ BroadcastEnd("cap")

WriterDB ==
    \/ WriterSignal
    \/ WriterStop
    \/ FlushLock
    \/ FlushTake
    \/ FlushBegin
    \/ FlushExec
    \/ FlushCommit

TruncateDB ==
    \/ TruncateLock
    \/ TruncateClearQueue
    \/ TruncateBegin
    \/ TruncateDelete
    \/ TruncateCommit

CloseDBCall ==
    \/ CloseStop
    \/ CloseStmt
    \/ CloseDB

NextDB ==
    \/ CaptureDB
    \/ WriterTick
    \/ WriterDB
    \/ TruncateDB
    \/ CloseDBCall

SpecDB == InitDB /\ [][NextDB]_vars

\* The same pipeline as the program runs it: nothing calls Truncate.
NextFlush ==
    \/ CaptureDB
    \/ WriterTick
    \/ WriterDB
    \/ CloseDBCall

SpecFlush == InitDB /\ [][NextFlush]_vars

\* The whole pipeline with persistence enabled and one browser: the capture
\* loop, the stats ticker, the background writer, and a /ws handler with its
\* writer goroutine and its cleanup.  Nothing calls Close or Truncate.
FlushPipe ==
    \/ WriterSignal
    \/ FlushLock
    \/ FlushTake
    \/ FlushBegin
    \/ FlushExec
    \/ FlushCommit

NextPipe ==
    \/ CaptureDB
    \/ TickBroadcastBegin
    \/ BroadcastSend("cap", Browser)
    \/ BroadcastSend("tick", Browser)
    \/ BroadcastEnd("tick")
    \/ WriterTick
    \/ FlushPipe
    \/ HandlerRegister(Browser)
    \/ PeerClose(Browser)
    \/ HandlerWS1
    \/ WriterWS1

InitPipe ==
    /\ maxPackets = MaxRing
    /\ InitStoreState
    /\ InitCapture
    /\ InitStatState
    /\ InitAppState
    /\ InitBootState
    /\ srcFrames = MaxFrames
    /\ dbEnabled = TRUE
    /\ InitWS
    /\ InitDBState
    /\ InitQueryState
    /\ InitResolveState

SpecPipe == InitPipe /\ [][NextPipe]_vars

\* The program from its start: main reads -db, opens the database if a path is
\* given (any one step of NewDatabase may fail), then the capture loop and the
\* background writer run and GET /api/database is answered.
InitBoot ==
    /\ maxPackets = MaxRing
    /\ InitStoreState
    /\ capPc = "boot"
    /\ capP = NewPacket(0, 0)
    /\ nFrames = 0
    /\ bcastArg = <<>>
    /\ truncHist = [pre |-> {}, ok |-> FALSE]
    /\ InitPtState
    /\ InitStatState
    /\ InitAppState
    /\ srcFrames = MaxQueued
    /\ dbEnabled = FALSE
    /\ InitWS
    /\ batchQueue = <<>>
    /\ insertMu = "free"
    /\ flushChan = 0
    /\ stopClosed = FALSE
    /\ tickerStopped = FALSE
    /\ stmtClosed = FALSE
    /\ dbClosed = FALSE
    /\ rows = <<>>
    /\ dbLock = "none"
    /\ fpc = "off"
    /\ fWake = "none"
    /\ fPackets = <<>>
    /\ txRows = <<>>
    /\ stmtOK = FALSE
    /\ cpc = "idle"
    /\ tpc = "idle"
    /\ nTrunc = 0
    /\ nFaults = 0
    /\ flushed = {}
    /\ execFailed = {}
    /\ txFault = {}
    /\ deleted = {}
    /\ InitQueryState
    /\ InitResolveState
    /\ bootPath \in {"", "pitrack.db"}
    /\ bootFail \in 0..Len(NewDatabaseSteps)
    /\ bootPc = "flags"
    /\ apiAnswers = <<>>

Startup ==
    \/ BootFlags
    \/ NewDatabaseStep
    \/ BootAfterNewDatabase
    \/ BootServe

WriterRun ==
    \/ WriterSignal
    \/ FlushLock
    \/ FlushTake
    \/ FlushBegin
    \/ FlushExec
    \/ FlushCommit

NextBoot ==
    \/ Startup
    \/ CaptureDB
    \/ WriterTick
    \/ WriterRun
    \/ ApiDatabase

SpecBoot == InitBoot /\ [][NextBoot]_vars

\* The capture loop and the writer goroutine take a step whenever they can;
\* the 5-second ticker is not required ever to fire, and Close need not ever
\* be called.
FairSpecFlush ==
    /\ SpecFlush
    /\ WF_vars(CaptureDB)
    /\ WF_vars(WriterDB)

\* In addition, a select that is reached again and again with the stop channel
\* closed eventually takes the stop case: Go picks among the ready cases at
\* random.
FairSpecStop ==
    /\ FairSpecFlush
    /\ SF_vars(WriterStop)

\* The history API over a packets table that grows by flushed packets:
\* direct calls of QueryPackets and GET /api/history requests.
InitQuery ==
    /\ maxPackets = MaxRing
    /\ InitStoreState
    /\ InitCapture
    /\ InitStatState
    /\ InitAppState
    /\ InitBootState
    /\ srcFrames = 0
    /\ dbEnabled = TRUE
    /\ InitWS
    /\ InitDBState
    /\ InitResolveState
    /\ table \in {<<>>, <<LegacyRow>>}
    /\ queuedOf = <<>>
    /\ qpc = "idle"
    /\ qreq = NoRequest
    /\ qargs = NoRequest
    /\ qtotal = 0
    /\ qpackets = <<>>
    /\ tCount = <<>>
    /\ tSelect = <<>>

NextQuery ==
    \/ \E p \in PacketSamples : StorePacket(p)
    \/ \E a \in CallArgs : QueryCall(a)
    \/ \E r \in Requests : HistoryRequest(r)
    \/ QueryCount
    \/ QuerySelect

SpecQuery == InitQuery /\ [][NextQuery]_vars

\* Enrichment of one IP address: the decoder sees packets with that address;
\* each resolveIPInfo call it starts runs with its two lookup goroutines.
InitResolve ==
    /\ maxPackets = MaxRing
    /\ InitStoreState
    /\ InitCapture
    /\ InitStatState
    /\ InitAppState
    /\ InitBootState
    /\ srcFrames = 0
    /\ dbEnabled = FALSE
    /\ InitWS
    /\ InitDBState
    /\ InitQueryState
    /\ rip \in IPSamples
    /\ cache = Absent
    /\ rpc = [r \in Resolvers |-> "none"]
    /\ retry = [r \in Resolvers |-> FALSE]
    /\ dpc = [r \in Resolvers |-> "none"]
    /\ dloc = [r \in Resolvers |-> NoInfo]
    /\ gpc = [r \in Resolvers |-> "none"]
    /\ gloc = [r \in Resolvers |-> NoInfo]
    /\ nGeoRequests = 0
    /\ dnsOK = {}
    /\ geoOK = {}

NextResolve ==
    \/ \E r \in Resolvers : DecodePacket(r)
    \/ \E r \in Resolvers : ResolveLoad(r)
    \/ \E r \in Resolvers : ResolveParse(r)
    \/ \E r \in Resolvers : ResolveCheckPrivate(r)
    \/ \E r \in Resolvers : ResolveStore(r)
    \/ \E r \in Resolvers : DnsLookup(r)
    \/ \E r \in Resolvers : DnsLoad(r)
    \/ \E r \in Resolvers : DnsStore(r)
    \/ \E r \in Resolvers : GeoGet(r)
    \/ \E r \in Resolvers : GeoLoad(r)
    \/ \E r \in Resolvers : GeoStore(r)

SpecResolve == InitResolve /\ [][NextResolve]_vars



\* ------------------------------------------------------- claims: the store

\* C1: the packets AddPacket stores get the ids 1, 2, 3, ... in the order in
\* which the calls acquired ps.mu: the i-th packet ever stored has id i and is
\* the packet of the i-th call to get the lock, so ids are unique and each is
\* greater than every id stored before it (also among those left in the ring).
C1_IdsFollowLockOrder ==
    /\ Len(stored) <= Len(lockOrder)
    /\ \A i \in DOMAIN stored :
          /\ stored[i].ID = i
          /\ stored[i].frame = lockOrder[i]
    /\ StrictlyIncreasing(Ids(packets))

\* Two concurrent calls: the one made second got the lock, and id 1, first.
C1_Witness ==
    /\ Len(stored) >= 2
    /\ stored[1].frame = 2
    /\ stored[2].frame = 1

\* C2: the ring never holds more than maxPackets packets, and once more than
\* maxPackets AddPacket calls have completed (K of them), GetPackets with no
\* limit returns exactly maxPackets packets, with ids K-maxPackets+1 .. K in
\* ascending order.
C2_RingBound ==
    /\ Len(packets) <= maxPackets
    /\ LET K == Len(stored)
       IN  K > maxPackets =>
             \A limit \in {0, MaxRing + 1} :
                LET got == GetPackets(packets, limit)
                IN  /\ Len(got) = maxPackets
                    /\ \A i \in 1..maxPackets :
                          got[i].ID = K - maxPackets + i

\* A GetPackets call with no limit has returned the full ring after an
\* eviction.
C2_Witness ==
    /\ maxPackets >= 2
    /\ Len(stored) > maxPackets
    /\ lastLimit = 0
    /\ lastGet = packets
    /\ lastGet[1].ID = Len(stored) - maxPackets + 1

\* C3: TotalPackets is the number of AddPacket calls completed and TotalBytes
\* the sum of the Length of every packet added, evicted ones included, in
\* every reachable state (so no other operation changes them).
C3_Totals ==
    /\ stats.TotalPackets = Len(stored)
    /\ stats.TotalBytes = SumLength(stored)

\* Packets with a non-zero Length have been evicted and are still counted.
C3_Witness ==
    /\ Len(stored) > Len(packets)
    /\ Len(packets) > 0
    /\ SumLength(stored) > SumLength(packets)
    /\ SumLength(packets) > 0

\* ----------------------------------------------------- claims: the fan-out

\* The broadcast messages written to a client's connection, in order.
WrittenBroadcasts(c) ==
    LET RECURSIVE Strip(_)
        Strip(s) == IF s = <<>> THEN <<>>
                    ELSE IF Head(s) = InitMsg THEN Strip(Tail(s))
                    ELSE <<Head(s)>> \o Strip(Tail(s))
    IN  Strip(written[c])

\* C4, in every state: a Broadcast inside its loop can always take its next
\* iteration, for whichever client the map yields next and however full that
\* client's queue is, and can return once the loop is over; it only visits
\* registered clients; the capture loop can always take its next step, and
\* the store has counted every frame the loop has handed to AddPacket.
C4_State ==
    /\ \A b \in Broadcasters :
          bpc[b] = "loop" =>
             /\ brem[b] \subseteq clients
             /\ \A c \in brem[b] : ENABLED BroadcastSend(b, c)
             /\ brem[b] = {} => ENABLED BroadcastEnd(b)
    /\ capPc = "add" => ENABLED CapAddPacket
    /\ capPc = "bcast" => ENABLED CapBroadcastBegin
    /\ stats.TotalPackets = nFrames - (IF capPc = "add" THEN 1 ELSE 0)

\* C4, in every step: a Broadcast call visits every registered client (its
\* loop starts with all of them and it returns only when none is left), and an
\* iteration for client c appends the message to c's queue when the queue has
\* room, leaves it as it is when it is full, and touches no other queue.
C4_Step ==
    \A b \in Broadcasters :
       /\ (bpc[b] = "idle" /\ bpc'[b] = "loop") => brem'[b] = clients
       /\ (bpc[b] = "loop" /\ bpc'[b] = "idle") => brem[b] = {}
       /\ \A c \in Clients :
             (bpc[b] = "loop" /\ c \in brem[b] /\ c \notin brem'[b]) =>
                /\ send'[c] = IF Len(send[c]) < SendCap
                              THEN Append(send[c], bmsg[b])
                              ELSE send[c]
                /\ \A d \in Clients \ {c} : send'[d] = send[d]

\* C4: Broadcast never waits on a client; a message is dropped exactly for the
\* clients whose queue is full and enqueued for every other registered
\* client; the capture loop's packet count does not depend on the clients.
C4_BroadcastNeverWaits == []C4_State /\ [][C4_Step]_vars

\* A Broadcast has finished its loop over two registered clients: the message
\* was dropped for the one whose queue was full (its writer has written
\* nothing but the init message) and enqueued for the other.
C4_Witness ==
    \E b \in Broadcasters, c, d \in Clients :
       /\ bpc[b] = "loop"
       /\ brem[b] = {}
       /\ clients = {c, d}
       /\ c # d
       /\ Len(send[c]) = SendCap
       /\ bmsg[b] \notin Range(send[c])
       /\ written[c] = <<InitMsg>>
       /\ wpc[c] = "recv"
       /\ bmsg[b] \in Range(send[d])
       /\ stats.TotalPackets = MaxFrames

C5_State ==
    \A c \in Clients :
       /\ NoDuplicates(written[c])
       /\ Range(WrittenBroadcasts(c)) \subseteq Range(blog)
       /\ \A b \in Broadcasters :
             IsSubseq(SelectSeqBy(written[c], b), SelectSeqBy(blog, b))

\* C5 amended, in every step: a message is enqueued for a client only while
\* the client is registered.
C5_Step ==
    \A c \in Clients : Len(send'[c]) > Len(send[c]) => c \in clients

C6_FinalFlushBeforeClose ==
    /\ (stmtClosed \/ dbClosed) => fpc = "stopped"
    /\ (nFaults = 0 /\ nTrunc = 0) =>
          /\ txFault = {}
          /\ execFailed = {}
          /\ flushed \subseteq Range(rows)

\* The packets that reached the threshold in the queue, for C7.
AtThreshold(f) == f \in Range(batchQueue) /\ Len(batchQueue) >= BatchSize

\* C7 as stated: a packet in a batch queue that has reached the flush
\* threshold is eventually taken out of the queue, ticker or no ticker.
C7_ThresholdDrained ==
    \A f \in 1..MaxQueued : AtThreshold(f) ~> (f \notin Range(batchQueue))

\* C7 amended: a packet in a batch queue that has reached the flush threshold
\* before Close gave the stop signal is eventually taken out of the queue,
\* even if the ticker never fires.
C7_ThresholdDrainedBeforeClose ==
    \A f \in 1..MaxQueued :
       (AtThreshold(f) /\ ~stopClosed) ~> (f \notin Range(batchQueue))

\* The writer, woken by the flush signal and by nothing else (Close has not
\* been called, the signal slot is empty again), has taken a batch of
\* threshold size out of the queue and is writing it.
C7_Witness ==
    /\ fWake = "signal"
    /\ fpc = "exec"
    /\ Len(fPackets) + Len(txRows) >= BatchSize
    /\ batchQueue = <<>>
    /\ flushChan = 0
    /\ ~stopClosed
    /\ nTrunc = 0

\* C8: whoever holds the batch mutex is between Lock and Unlock of its short
\* critical section on the queue, never in a transaction: Flush holds it only
\* before Begin, Truncate only before its Begin, QueuePacket only around the
\* append. While the mutex is held by QueuePacket its append can proceed,
\* whatever the flush or the truncation is doing on disk.
C8_MutexNeverHeldOnDisk ==
    /\ insertMu = "writer" => fpc = "locked"
    /\ insertMu = "trunc" => tpc = "locked"
    /\ insertMu = "cap" => capPc = "qlocked"
    /\ fpc \in {"begin", "exec"} => insertMu # "writer"
    /\ tpc \in {"begin", "delete", "commit"} => insertMu # "trunc"
    /\ capPc = "qlocked" => ENABLED CapQueueAppend
    /\ (capPc = "queue" /\ fpc \in {"begin", "exec"}
          /\ tpc \in {"idle", "begin", "delete", "commit"})
       => ENABLED CapQueueLock

\* QueuePacket holds the mutex and is about to append while Flush is in the
\* middle of its transaction, one INSERT done and one to go.
C8_Witness ==
    /\ capPc = "qlocked"
    /\ insertMu = "cap"
    /\ fpc = "exec"
    /\ txRows # <<>>
    /\ fPackets # <<>>

\* C9: the rows of the table together with the rows of the transaction in
\* progress are in enqueue order (the capture loop enqueues frame 1, 2, ...
\* in this order), and every row Truncate deleted was enqueued before every
\* row inserted that is still there.
C9_RowsInEnqueueOrder ==
    /\ StrictlyIncreasing(rows \o txRows)
    /\ StrictlyIncreasing(batchQueue)
    /\ StrictlyIncreasing(txRows \o fPackets)
    /\ \A d \in deleted : \A r \in Range(rows \o txRows) : d < r

\* Two packets of one batch are rows, in order, and a packet of a later batch
\* has been inserted after them.
C9_Witness ==
    /\ rows = <<1, 2>>
    /\ txRows = <<3>>

\* C10: (1) a packet of a finished flush whose transaction did not fail and
\* whose own INSERT did not fail is a row (or was one until Truncate deleted
\* it); (2) no packet of a batch whose Begin or Commit failed is a row, and
\* none is in the queue again; (3) the writer stops only in the stop branch:
\* after a failure it is back at its select or on its way through the next
\* flush.
C10_FailuresNotFatal ==
    /\ \A f \in flushed \ (execFailed \cup txFault) :
          f \in Range(rows) \cup deleted
    /\ \A f \in txFault :
          /\ f \notin Range(rows) \cup deleted
          /\ f \notin Range(batchQueue)
          /\ f \notin Range(fPackets)
    /\ fpc = "stopped" => fWake = "stop"
    /\ (fpc = "select" /\ flushChan > 0) => ENABLED WriterSignal

\* In the batch being flushed the INSERT of one packet has failed and the
\* INSERT of a packet after it has succeeded; Close has not been called.
C10_Witness ==
    /\ fpc = "exec"
    /\ ~stopClosed
    /\ \E f \in execFailed :
          /\ f \notin flushed
          /\ txRows # <<>>
          /\ f < txRows[Len(txRows)]

\* What "the row satisfies the filters" means for C11 and C13: the timestamp
\* lies in the time range, the text occurs (letter case ignored) in one of the
\* seven searched columns, one endpoint's country is the country asked for,
\* and neither endpoint is an excluded IP.
Satisfies(r, a) ==
    /\ (a.startTime = NoTime \/ a.startTime <= r.timestamp)
    /\ (a.endTime = NoTime \/ r.timestamp <= a.endTime)
    /\ \/ a.filter = <<>>
       \/ \E col \in {r.src_ip, r.dst_ip, r.protocol, r.application,
                      r.src_hostname, r.dst_hostname, r.info} :
             Contains(LowerStr(col), LowerStr(a.filter))
    /\ (a.country = <<>> \/ a.country \in {r.src_country, r.dst_country})
    /\ ~ \E i \in DOMAIN a.excludeIPs :
            /\ TrimSpace(a.excludeIPs[i]) # <<>>
            /\ TrimSpace(a.excludeIPs[i]) \in {r.src_ip, r.dst_ip}

C12_HistoryLimitClamped ==
    (qpc = "done" /\ qreq.kind = "api") =>
       /\ Len(qpackets) <= MaxLimit
       /\ qreq.limit = <<>> => Len(qpackets) <= DefaultLimit
       /\ qreq.offset = <<>> => qargs.offset = 0

\* The country and the excluded IPs (blanks trimmed, empty entries dropped)
\* that the caller of the current query asked for: the parameters of the
\* request for GET /api/history, the arguments for a direct call.
AskedCountry == IF qreq.kind = "api" THEN qreq.country ELSE qargs.country

AskedExcluded ==
    LET l == IF qreq.kind = "api"
             THEN (IF qreq.exclude = <<>> THEN <<>>
                   ELSE Split(qreq.exclude, ","))
             ELSE qargs.excludeIPs
    IN  {TrimSpace(l[i]) : i \in DOMAIN l} \ {<<>>}

PassesAsked(src_ip, dst_ip, src_country, dst_country) ==
    /\ AskedCountry # <<>> => AskedCountry \in {src_country, dst_country}
    /\ src_ip \notin AskedExcluded
    /\ dst_ip \notin AskedExcluded

\* C13 as stated: a history query with country C and exclude list E, made by
\* a call of QueryPackets or through GET /api/history, returns only packets
\* with source or destination country C and with neither IP in E, and (with
\* no text filter and no time range) total is the number of rows that pass.
C13_CountryAndExclude ==
    qpc = "done" =>
       /\ \A i \in DOMAIN qpackets :
             PassesAsked(qpackets[i].SrcIP, qpackets[i].DstIP,
                         qpackets[i].SrcCountry, qpackets[i].DstCountry)
       /\ (qargs.filter = <<>> /\ qargs.startTime = NoTime
             /\ qargs.endTime = NoTime) =>
             qtotal = Cardinality({i \in DOMAIN tCount :
                         PassesAsked(tCount[i].src_ip, tCount[i].dst_ip,
                                     tCount[i].src_country,
                                     tCount[i].dst_country)})

\* The query returns every row it saw: no filter, no offset, no limit below
\* the number of rows.
WholeTable ==
    /\ qpc = "done"
    /\ qargs.filter = <<>>
    /\ qargs.country = <<>>
    /\ qargs.excludeIPs = <<>>
    /\ qargs.startTime = NoTime
    /\ qargs.endTime = NoTime
    /\ qargs.offset <= 0
    /\ (qargs.limit < 0 \/ qargs.limit >= Len(tSelect))

AllSettled ==
    \A r \in Resolvers :
       /\ rpc[r] \in {"done", "hit", "skip"}
       /\ dpc[r] \in {"none", "done"}
       /\ gpc[r] \in {"none", "done"}

\* C15, in every step: a hostname, and a country, once in the entry is not
\* replaced by the empty string.
C15_Step ==
    cache.present =>
       /\ cache.Hostname # "" => cache'.Hostname # ""
       /\ cache.Country # "" => cache'.Country # ""

\* C15, at the end: when the reverse-DNS goroutine and the GeoIP goroutine of
\* a resolve call have both succeeded, the entry has a hostname and a country.
C15_Final ==
    (AllSettled /\ dnsOK \cap geoOK # {}) =>
       /\ cache.present
       /\ cache.Hostname # ""
       /\ cache.Country # ""

\* C15 as stated: the entry of an IP only gains information, and ends with
\* hostname and country when both lookups succeed, in every interleaving.
C15_EntryOnlyGains == []C15_Final /\ [][C15_Step]_vars

\* C16: for an address in 10/8, 172.16/12, 192.168/16, 127/8, 169.254/16,
\* fe80::/10 or fc00::/7, no GeoIP goroutine is ever started and no GeoIP
\* request issued, and from the return of the first resolveIPInfo call on the
\* entry exists with country "Local", whatever the reverse-DNS goroutines and
\* duplicate calls do.
C16_PrivateIsLocal ==
    rip \in PrivateSamples =>
       /\ nGeoRequests = 0
       /\ \A r \in Resolvers : gpc[r] = "none"
       /\ (\E r \in Resolvers : rpc[r] \in {"done", "hit"}) =>
             /\ cache.present
             /\ cache.Country = "Local"

\* Two concurrent resolve calls for 172.31.255.1 have both run to the end
\* (neither found the entry in the cache), a reverse-DNS goroutine has stored
\* its hostname, and the entry's country is "Local".
C16_Witness ==
    /\ rip = V4(172, 31, 255, 1)
    /\ \A r \in Resolvers : rpc[r] = "done"
    /\ dnsOK = Resolvers
    /\ AllSettled
    /\ cache = Entry([Hostname |-> "host", Country |-> "Local"])

\* C17 as stated: a resolve call started by a packet decoded after a failed
\* resolution (the entry exists with hostname and country empty, and no
\* lookup is running) starts a new reverse-DNS lookup, and a new GeoIP lookup
\* for a public address.
C17_RetryAfterFailure ==
    \A r \in Resolvers :
       (retry[r] /\ rip.v # 0 /\ rpc[r] \in {"done", "hit"}) =>
          /\ dpc[r] # "none"
          /\ rip \in PublicSamples => gpc[r] # "none"

\* C19, in every state: a client whose connection is healthy and whose
\* handler is in its read loop is registered and its queue is open, whatever
\* its queue holds.
C19_State ==
    \A c \in Clients :
       (connOK[c] /\ hpc[c] = "read") => (c \in clients /\ ~sendClosed[c])

\* C19, in every step: the handler leaves its read loop, the client is taken
\* out of the registry and its queue is closed only when the connection has
\* failed; and a healthy connection is never ended by a step of the handler.
C19_Step ==
    \A c \in Clients :
       /\ (hpc[c] = "read" /\ hpc'[c] # "read") => ~connOK[c]
       /\ (c \in clients /\ c \notin clients') => ~connOK[c]
       /\ (~sendClosed[c] /\ sendClosed'[c]) => ~connOK[c]
       /\ (connOK[c] /\ ~connOK'[c]) => hpc'[c] = hpc[c]

\* C19: backpressure never disconnects: a full queue only makes the client
\* miss messages; it is torn down only after an error on its connection.
C19_NoBackpressureDisconnect == []C19_State /\ [][C19_Step]_vars

\* More messages have been broadcast than a queue holds; a client that has
\* drained nothing (only its init message was written) has a full queue, has
\* missed the rest, and is still registered and connected.
C19_Witness ==
    \E c \in Clients :
       /\ \A b \in Broadcasters : bpc[b] = "idle"
       /\ Len(blog) > SendCap
       /\ Len(send[c]) = SendCap
       /\ send[c][1] = blog[1]
       /\ written[c] = <<InitMsg>>
       /\ hpc[c] = "read"
       /\ connOK[c]
       /\ c \in clients

\* C20: whatever has been written to a client's connection starts with the
\* init message and holds it once; once the handler has written it (the
\* writer goroutine exists) nothing is missing unless the connection had
\* failed, and before that nothing at all has been written.
C20_InitFirstAndOnce ==
    \A c \in Clients :
       /\ written[c] # <<>> => written[c][1] = InitMsg
       /\ Cardinality({i \in DOMAIN written[c] : written[c][i] = InitMsg}) <= 1
       /\ hpc[c] \in {"none", "init"} => (written[c] = <<>> /\ wpc[c] = "off")
       /\ (hpc[c] \notin {"none", "init"} /\ written[c] = <<>>) => ~connOK[c]

\* A packet event was already waiting in the client's queue when the handler
\* wrote the init message: init is on the connection, the event is not yet.
C20_Witness ==
    \E c \in Clients :
       /\ hpc[c] = "read"
       /\ written[c] = <<InitMsg>>
       /\ wpc[c] = "recv"
       /\ send[c] = <<Msg("cap", 1)>>
       /\ nFrames = 1
       /\ capPc = "parse"

\* C18, the teardown: the handler's cleanup has run to its end: the client is
\* out of the registry, its queue is closed and its connection is closed.
TornDown(c) ==
    /\ hpc[c] = "done"
    /\ c \notin clients
    /\ sendClosed[c]
    /\ ~connOK[c]

\* C18, in every step: once the client has been removed from the registry no
\* Broadcast iteration visits it and nothing is added to its queue.
C18_Step ==
    \A c \in Clients :
       hpc[c] \in {"close", "done"} =>
          /\ c \notin clients
          /\ \A b \in Broadcasters : c \notin brem'[b]
          /\ Len(send'[c]) <= Len(send[c])

RECURSIVE EventIDs(_)
EventIDs(w) ==
    IF w = <<>> THEN <<>>
    ELSE IF Head(w).src = "cap"
         THEN <<bcastArg[Head(w).k].ID>> \o EventIDs(Tail(w))
         ELSE EventIDs(Tail(w))

\* C21: after AddPacket has returned, the Packet the capture loop goes on to
\* hand to QueuePacket and to Broadcast carries the id the store gave that
\* frame, every Packet broadcast carried it, and the ids of the packet events
\* written to one client strictly increase.
C21_HandedPacketCarriesID ==
    /\ capPc \in {"queue", "qlocked", "qsignal", "bcast"} =>
          \E i \in DOMAIN stored :
             /\ stored[i].frame = capP.frame
             /\ stored[i].ID = capP.ID
    /\ \A k \in DOMAIN bcastArg :
          \E i \in DOMAIN stored :
             /\ stored[i].frame = bcastArg[k].frame
             /\ stored[i].ID = bcastArg[k].ID
    /\ \A c \in Clients : StrictlyIncreasing(EventIDs(written[c]))

\* m[k] of a Go map of integers: the zero value when k is absent.
MapGet(m, k) == IF k \in DOMAIN m THEN m[k] ELSE 0

Countries == {"Local", "US"}

\* The bytes credited to country c by the packets of a: each packet's length
\* once if its source country is c and once more if its destination's is.
RECURSIVE Credit(_, _)
Credit(c, a) ==
    IF a = <<>> THEN 0
    ELSE (IF Head(a).p.SrcCountry = c THEN Head(a).p.Length ELSE 0)
       + (IF Head(a).p.DstCountry = c THEN Head(a).p.Length ELSE 0)
       + Credit(c, Tail(a))

\* The packets that had been added when GetStats returned g.
AddedBefore(g) == SubSeq(added, 1, g.TotalPackets)

\* C22: for every country c, the countryStats[c] of every GetStats result is
\* the sum over the packets added so far of the length, counted once for a
\* source in c and once more for a destination in c.
C22_CountryStatsDoubleCredit ==
    \A i \in DOMAIN gotStats : \A c \in Countries :
       MapGet(gotStats[i].CountryStats, c) = Credit(c, AddedBefore(gotStats[i]))

\* The (srcIP, srcPort, dstIP, dstPort, protocol) of a packet or connection.
FiveTuple(x) == <<x.SrcIP, x.SrcPort, x.DstIP, x.DstPort, x.Protocol>>

\* The added packets that have a non-zero port.
WithPort == {i \in DOMAIN added :
                added[i].p.SrcPort > 0 \/ added[i].p.DstPort > 0}

\* The added packets of one five-tuple, in the order added.
RECURSIVE OfTuple(_, _)
OfTuple(a, t) ==
    IF a = <<>> THEN <<>>
    ELSE IF FiveTuple(Head(a).p) = t /\ t[2] + t[4] > 0
         THEN <<Head(a).p.Length>> \o OfTuple(Tail(a), t)
         ELSE OfTuple(Tail(a), t)

\* C23, in every state: the connection table has exactly one entry for each
\* distinct five-tuple among the added packets with a non-zero port, and none
\* else; the entry's Packets and Bytes are the number and the total length of
\* those packets.
C23_State ==
    LET conns == {connections[k] : k \in DOMAIN connections}
    IN  /\ {FiveTuple(e) : e \in conns} = {FiveTuple(added[i].p) : i \in WithPort}
        /\ Cardinality(DOMAIN connections) =
              Cardinality({FiveTuple(added[i].p) : i \in WithPort})
        /\ \A e \in conns :
              /\ e.Packets = Len(OfTuple(added, FiveTuple(e)))
              /\ e.Bytes = SumSeq(OfTuple(added, FiveTuple(e)))

\* C23, in every step: no entry is removed, and adding a packet with both
\* ports 0 leaves the table as it is.
C23_Step ==
    /\ DOMAIN connections \subseteq DOMAIN connections'
    /\ (Len(added') > Len(added) /\ Len(added') \notin WithPort') =>
          connections' = connections

\* C23: the connection table is the per-five-tuple count and byte total of
\* the packets that have a port.
C23_ConnectionTable == []C23_State /\ [][C23_Step]_vars

\* A ping (ports 0) was added after a TCP packet: the table still holds the
\* one TCP entry with that packet's length.
C23_Witness ==
    /\ Len(added) = 2
    /\ added[1].p.Protocol = TCP
    /\ added[2].p.Protocol = ICMP
    /\ Cardinality(DOMAIN connections) = 1
    /\ \A k \in DOMAIN connections :
          /\ connections[k].Packets = 1
          /\ connections[k].Bytes = added[1].p.Length

\* C24: every connection has LastSeen >= FirstSeen, whatever the capture
\* timestamps of the packets added.
C24_LastSeenNotBeforeFirstSeen ==
    \A k \in DOMAIN connections :
       connections[k].LastSeen >= connections[k].FirstSeen

\* The adds made in the last WindowSecs seconds, oldest first.
RECURSIVE RecentAdds(_)
RecentAdds(a) ==
    IF a = <<>> THEN <<>>
    ELSE IF Head(a).at >= now - WindowSecs
         THEN <<Head(a)>> \o RecentAdds(Tail(a))
         ELSE RecentAdds(Tail(a))

\* C25, the window: after an AddPacket the rate window holds exactly the
\* samples of the adds of the last 5 seconds.
C25_Window ==
    LET r == RecentAdds(added)
    IN  /\ packetsWindow = [i \in DOMAIN r |-> r[i].at]
        /\ bytesWindow = [i \in DOMAIN r |-> r[i].p.Length]

\* C25, the rates: when the window spans a positive duration the reported
\* rates are its sample count and its byte total over that duration; they are
\* never negative.
C25_Rates ==
    /\ (packetsWindow # <<>> /\ now - packetsWindow[1] > 0) =>
          /\ rates.pps = <<Len(packetsWindow), now - packetsWindow[1]>>
          /\ rates.bps = <<SumSeq(bytesWindow), now - packetsWindow[1]>>
    /\ \A x \in {rates.pps, rates.bps} : x[1] >= 0 /\ x[2] > 0

\* C25, freshness: the reported rates were never computed from a sample
\* older than 5 seconds.
C25_Fresh == \A i \in DOMAIN rateFrom : rateFrom[i] >= now - WindowSecs

\* C25: after every AddPacket the window is the last 5 seconds of adds and
\* the reported rates are derived from it.
C25_RatesFromCurrentWindow ==
    added # <<>> => (C25_Window /\ C25_Rates /\ C25_Fresh)

\* The well-known-port name of a port, or "" when the map has none.
PortName(port) ==
    IF port \in DOMAIN WellKnownPorts THEN WellKnownPorts[port] ELSE ""

\* C26: when no DNS layer has set the application, the decoder sets it to the
\* name of the source port if the map has one, otherwise to the name of the
\* destination port, otherwise leaves it empty.
C26_SourcePortFirst ==
    (apc = "parsed" /\ ~aDns) =>
       aApp = IF PortName(aSrc) # "" THEN PortName(aSrc) ELSE PortName(aDst)

\* C27: GetStats and GetConnections are functions of the state they read:
\* two GetStats calls that read the same store statistics and the same cache
\* return the same top-talker list, and two GetConnections calls that read the
\* same connection table return the same list, members and order.
C27_SameStateSameLists ==
    /\ \A i, j \in DOMAIN gotStats :
          gotStats[i].read = gotStats[j].read =>
             gotStats[i].TopTalkers = gotStats[j].TopTalkers
    /\ \A i, j \in DOMAIN gotConns :
          gotConns[i].read = gotConns[j].read =>
             gotConns[i].Connections = gotConns[j].Connections

\* C28: once main is past startup, persistence is off only if the operator
\* gave an empty path (a failure to open a configured database does not lead
\* to a running program without persistence), and GET /api/database answers
\* enabled:false exactly when persistence is off.
C28_OpenFailureIsFatal ==
    /\ (bootPc \in {"store", "serve"} /\ bootPath # "") => dbEnabled
    /\ (capPc # "boot" /\ ~dbEnabled) => bootPath = ""
    /\ \A i \in DOMAIN apiAnswers :
          (apiAnswers[i] = [status |-> 200, enabled |-> FALSE]) <=> ~dbEnabled

\* The capacity the batch queue is created with: make([]Packet, 0, 100), the
\* flush threshold.
QueueCap == BatchSize

\* C29: the number of packets awaiting the disk write never exceeds the
\* queue's capacity, whatever the writer is doing.
C29_BatchQueueBounded == Len(batchQueue) <= QueueCap

\* The writer is inside Flush.
Flushing == fpc \in {"lock", "locked", "begin", "exec", "commit"}

\* C30, in every state: a flush transaction is open only while the writer is
\* inside Flush, past Begin; a stopped writer woke on the stop signal and
\* holds neither the mutex nor a transaction; and a QueuePacket made after the
\* writer has stopped can take each of its steps.
C30_State ==
    /\ (txRows # <<>> \/ dbLock = "writer") => fpc \in {"exec", "commit"}
    /\ insertMu = "writer" => fpc = "locked"
    /\ fpc = "stopped" =>
          /\ fWake = "stop"
          /\ stopClosed /\ tickerStopped
          /\ capPc = "queue" => ENABLED CapQueueLock
          /\ capPc = "qlocked" => ENABLED CapQueueAppend
          /\ capPc = "qsignal" => ENABLED CapQueueSignal

\* C30, in every step: the writer leaves Idle only on the ticker, the flush
\* signal or the stop signal, and returns to Idle from a flush started by the
\* ticker or the signal; the flush started by the stop signal is the last one:
\* from it the writer goes to Stopped, and a stopped writer stays stopped and
\* changes neither the queue nor the table.
C30_Step ==
    /\ (fpc = "select" /\ fpc' # "select") =>
          (fpc' = "lock" /\ fWake' \in {"tick", "signal", "stop"})
    /\ (Flushing /\ ~Flushing') =>
          fpc' = IF fWake = "stop" THEN "stopped" ELSE "select"
    /\ (fpc # "select" /\ fpc' = "lock") => fpc = "lock"
    /\ (fWake = "stop" /\ fpc' # fpc) => fpc' # "select"
    /\ fpc = "stopped" =>
          /\ fpc' = "stopped"
          /\ rows' = rows
          /\ Len(batchQueue') >= Len(batchQueue)

\* C30: the writer alternates Idle and Flushing on ticker, signal or stop, one
\* flush at a time; once the stop signal is given it eventually makes its
\* final flush and stops for good, and QueuePacket still returns afterwards.
C30_WriterLifecycle ==
    /\ []C30_State
    /\ [][C30_Step]_vars
    /\ (stopClosed ~> fpc = "stopped")

\* The writer has made its final flush and stopped, rows are on disk, and the
\* capture loop is inside a QueuePacket that found the threshold reached and
\* is about to signal a writer that is gone.
C30_Witness ==
    /\ fpc = "stopped"
    /\ rows # <<>>
    /\ capPc = "qsignal"
    /\ Len(batchQueue) >= BatchSize

\* ------------------------------------------------- claims: the last sitting

\* C40: AddPacket completes without failure for every maxPackets >= 0, zero
\* included: no call panics, and with maxPackets = 0 the ring stays empty while
\* every call that got an id is counted in TotalPackets.
C40_AddPacketCompletesForAnyCapacity ==
    /\ ~panicked
    /\ maxPackets = 0 => (packets = <<>> /\ stats.TotalPackets = packetID)

\* C33, in every state: no goroutine has panicked on a send, and a client whose
\* queue is closed is neither in the registry nor among the clients a running
\* Broadcast still has to visit.
C33_State ==
    /\ ~panicked
    /\ \A c \in Clients :
          sendClosed[c] =>
             /\ c \notin clients
             /\ \A b \in Broadcasters : c \notin brem[b]

\* C33, in every step: a client leaves the registry only while no Broadcast
\* holds the read lock, its queue is closed only after it has left, and no
\* message is ever added to a closed queue.
C33_Step ==
    \A c \in Clients :
       /\ (c \in clients /\ c \notin clients') => cmuReaders = {}
       /\ (~sendClosed[c] /\ sendClosed'[c]) => c \notin clients
       /\ sendClosed[c] => Len(send'[c]) <= Len(send[c])

\* C33: Broadcast never sends on a closed client queue; the handler removes
\* the client under the registry's write lock before it closes the queue.
C33_NeverSendsOnClosedQueue == []C33_State /\ [][C33_Step]_vars

\* One client's queue is already closed while a Broadcast holds the read lock
\* and still has to visit a client whose handler waits to unregister it.
C33_Witness ==
    \E c, d \in Clients :
       /\ sendClosed[c]
       /\ hpc[d] = "unregister"
       /\ \E b \in Broadcasters : bpc[b] = "loop" /\ d \in brem[b]

\* C37, in every state: a client's writer goroutine exists only once the
\* handler is past its own write of the init message.
C37_State ==
    \A c \in Clients : wpc[c] # "off" => hpc[c] \notin {"none", "init"}

\* C37, in every step: a step writes at most one message to a connection, and
\* it is either the handler writing init while no writer exists, or the
\* writer goroutine writing the message it took from the queue.
C37_Step ==
    \A c \in Clients :
       written'[c] # written[c] =>
          \/ /\ hpc[c] = "init" /\ wpc[c] = "off"
             /\ written'[c] = Append(written[c], InitMsg)
          \/ /\ wpc[c] = "write" /\ hpc[c] # "init"
             /\ written'[c] = Append(written[c], whand[c])

\* C37: at most one task writes to a client's connection at a time: the
\* handler writes init before it starts the writer goroutine, and every later
\* message is written by that goroutine alone.
C37_SingleWriterPerConnection == []C37_State /\ [][C37_Step]_vars

\* The handler wrote init, the writer goroutine wrote a packet event after it
\* and now holds the next message to write, while the handler reads.
C37_Witness ==
    \E c \in Clients :
       /\ Len(written[c]) >= 2
       /\ written[c][1] = InitMsg
       /\ written[c][2].src = "cap"
       /\ hpc[c] = "read"
       /\ wpc[c] = "write"

\* The frames whose packet event is in a client's queue.
QueuedEvents(c) ==
    {send[c][i].k : i \in {j \in DOMAIN send[c] : send[c][j].src = "cap"}}

\* C36: no packet is delivered twice to a client: when the handler builds and
\* writes the client's init message, no packet in its packets list has also
\* been sent to that client as a packet event.
C36_InitAndEventsDisjoint ==
    [][\A c \in Clients :
          (hpc[c] = "init" /\ hpc'[c] = "read" /\ connOK[c]) =>
             Range(Frames(InitPackets(packets))) \cap QueuedEvents(c) = {}]_vars

\* The frames a Flush has taken out of the batch queue.
TakenByFlush ==
    Range(fPackets) \cup Range(txRows) \cup Range(rows) \cup flushed
       \cup execFailed \cup txFault

\* The packet events a client has been handed: queued, held by its writer
\* goroutine, or written to its connection.
EventsOf(c) ==
    {m \in Range(send[c]) \cup Range(written[c]) \cup {whand[c]} :
        m.src = "cap"}

\* The packet events broadcast so far, in the order of the Broadcast calls.
PacketEvents == SelectSeq(blog, LAMBDA m : m.src = "cap")

\* C31, in every state: the capture loop handles one frame at a time; once it
\* is past AddPacket the frame is counted in TotalPackets, once it is past
\* QueuePacket the frame is in the batch queue or was taken by a flush; so
\* both hold for every packet event a client has been handed; and the packet
\* events were broadcast in the order in which the store assigned the ids.
C31_State ==
    /\ capPc \in {"queue", "qlocked", "qsignal", "bcast", "bloop"} =>
          /\ stats.TotalPackets = nFrames
          /\ stored[nFrames].frame = capP.frame
    /\ capPc \in {"qsignal", "bcast", "bloop"} =>
          capP.frame \in Range(batchQueue) \cup TakenByFlush
    /\ \A m \in EventsOf(Browser) :
          /\ stats.TotalPackets >= m.k
          /\ m.k \in Range(batchQueue) \cup TakenByFlush
    /\ \A i \in DOMAIN PacketEvents :
          /\ PacketEvents[i].k = stored[i].frame
          /\ stored[i].ID = i

\* C31, in every step: the capture loop moves from the parse to AddPacket, to
\* QueuePacket, to Broadcast and back to the next frame, in that order.
C31_Step ==
    capPc' # capPc =>
       \/ capPc = "parse" /\ capPc' = "add"
       \/ capPc = "add" /\ capPc' = "queue"
       \/ capPc = "queue" /\ capPc' = "qlocked"
       \/ capPc = "qlocked" /\ capPc' \in {"qsignal", "bcast"}
       \/ capPc = "qsignal" /\ capPc' = "bcast"
       \/ capPc = "bcast" /\ capPc' = "bloop"
       \/ capPc = "bloop" /\ capPc' = "parse"

\* C31: for each frame the capture task calls AddPacket, then QueuePacket,
\* then Broadcast, one frame at a time, so an enqueued packet event is already
\* counted and queued for the database, and events go out in id order.
C31_CaptureOrder == []C31_State /\ [][C31_Step]_vars

\* The browser has been handed the events of two frames in order; the first
\* frame is in the table and the second still in the batch queue.
C31_Witness ==
    /\ Len(written[Browser]) >= 2
    /\ written[Browser][2] = Msg("cap", 1)
    /\ send[Browser] = <<Msg("cap", 2)>>
    /\ 1 \in Range(rows)
    /\ 2 \in Range(batchQueue)

\* The mutexes a task holds: the store mutex (ps.mu), the registry mutex
\* (ps.clientsMu) and the batch mutex (d.insertMu).
Tasks == {"cap", "tick", "writer", Browser}

Held(t) ==
    {"mu" : x \in {t} \cap ({mu.writer} \cup mu.readers)}
       \cup {"clientsMu" : x \in {t} \cap cmuReaders}
       \cup {"insertMu" : x \in {t} \cap {insertMu}}

\* C39, in every state: no task holds two of the three mutexes; whoever holds
\* one can take its next step without waiting for a lock or a channel; and a
\* task inside the pipeline can step or waits for a mutex whose holder can.
C39_State ==
    /\ \A t \in Tasks : Cardinality(Held(t)) <= 1
    /\ insertMu = "cap" => ENABLED CapQueueAppend
    /\ insertMu = "writer" => ENABLED FlushTake
    /\ \A b \in Broadcasters :
          b \in cmuReaders =>
             \/ ENABLED BroadcastSend(b, Browser)
             \/ ENABLED BroadcastEnd(b)
    /\ capPc = "add" => ENABLED CapAddPacket
    /\ capPc = "queue" => (ENABLED CapQueueLock \/ insertMu = "writer")
    /\ capPc = "qsignal" => ENABLED CapQueueSignal
    /\ capPc = "bcast" => ENABLED CapBroadcastBegin
    /\ fpc = "lock" => (ENABLED FlushLock \/ insertMu = "cap")
    /\ fpc \in {"begin", "exec", "commit"} => ENABLED FlushPipe
    /\ hpc[Browser] = "none" => (ENABLED HandlerRegister(Browser)
                                   \/ cmuReaders # {})
    /\ hpc[Browser] = "init" => ENABLED HandlerSendInit(Browser)
    /\ hpc[Browser] = "unregister" => (ENABLED HandlerUnregister(Browser)
                                         \/ cmuReaders # {})
    /\ hpc[Browser] = "close" => ENABLED HandlerClose(Browser)

\* C39, in every step: a task that takes a mutex holds no other one: the
\* capture loop entering AddPacket, QueuePacket or Broadcast, the ticker
\* entering GetStats and Broadcast, the writer entering Flush.
C39_Step ==
    /\ (capPc = "add" /\ capPc' # "add") => Held("cap") = {}
    /\ (insertMu # "cap" /\ insertMu' = "cap") => Held("cap") = {}
    /\ (insertMu # "writer" /\ insertMu' = "writer") => Held("writer") = {}
    /\ \A b \in Broadcasters :
          (b \notin cmuReaders /\ b \in cmuReaders') => Held(b) = {}

\* C39: the pipeline is deadlock-free: no task holds two of the store mutex,
\* the registry mutex and the batch mutex at once, and no task blocks on a
\* channel operation or a lock while holding one.
C39_NoNestedLocks == []C39_State /\ [][C39_Step]_vars

\* A Broadcast holds the registry's read lock with the browser's queue full,
\* the capture loop waits for the batch mutex the writer holds, and the
\* handler waits to unregister.
C39_Witness ==
    /\ "tick" \in cmuReaders
    /\ Browser \in brem["tick"]
    /\ Len(send[Browser]) >= SendCap
    /\ capPc = "queue"
    /\ insertMu = "writer"
    /\ hpc[Browser] = "unregister"

\* C38, in every state: no frame is in the table or in the open transaction
\* twice, and every frame QueuePacket appended is in exactly one place: the
\* batch queue, a flush's copy, its transaction, the table, or the record of
\* the rows and batches a database error lost.
C38_State ==
    /\ NoDuplicates(rows \o txRows \o fPackets \o batchQueue)
    /\ Appended = Range(rows) \cup Range(txRows) \cup Range(fPackets)
                     \cup Range(batchQueue) \cup execFailed \cup txFault
    /\ (execFailed \cup txFault) \cap
          (Range(rows) \cup Range(txRows) \cup Range(fPackets)
             \cup Range(batchQueue)) = {}

\* C38, in every step: the batch queue loses packets only when Flush, holding
\* the mutex, takes a copy of the whole queue and truncates it; otherwise the
\* queue only grows at its end, also during a flush's transaction.
C38_Step ==
    \/ /\ insertMu = "writer"
       /\ fPackets' = batchQueue
       /\ batchQueue' = <<>>
    \/ /\ Len(batchQueue') >= Len(batchQueue)
       /\ SubSeq(batchQueue', 1, Len(batchQueue)) = batchQueue

\* C38: every packet passed to QueuePacket is inserted at most once; Flush
\* removes from the queue exactly what it copied under the mutex, and a packet
\* queued while a flush's transaction runs stays queued for a later flush.
C38_InsertedAtMostOnce == []C38_State /\ [][C38_Step]_vars

\* A first flush committed, a second one has a row in its open transaction,
\* and a packet queued meanwhile waits in the batch queue.
C38_Witness ==
    /\ rows # <<>>
    /\ txRows # <<>>
    /\ fpc \in {"exec", "commit"}
    /\ batchQueue # <<>>

\* C35: once Truncate has returned without error, and no QueuePacket call was
\* made after it started, the packets table holds no packet that was queued
\* before Truncate started, whatever a flush in progress does.
C35_TruncateLeavesNoOldPacket ==
    (/\ truncHist.ok
     /\ tpc = "idle"
     /\ capPc \notin {"queue", "qlocked"}
     /\ Appended = truncHist.pre)
       => Range(rows) \cap truncHist.pre = {}

\* C34: the Stats value GetStats returns is a snapshot: a later AddPacket
\* changes nothing in a value already returned (its protocolStats map reads
\* as it did at the return), and no reader of a returned value walks store
\* data outside the lock while AddPacket writes it.
C34_StatsIsSnapshot ==
    \A i \in DOMAIN gotStats :
       /\ MapOf(gotStats[i].ProtocolStats) = gotStats[i].copied
       /\ marshal[i] # "raced"

\* The local ports greater than 0 of a snapshot.
LocalPorts(conns) == {conns[i].Port : i \in DOMAIN conns} \ {0}

\* C32, in every state: the port map in use holds exactly the local ports
\* greater than 0 of the latest snapshot that was installed, each with the
\* PID of a socket of that snapshot on that port; before the first successful
\* refresh it is empty.
C32_State ==
    /\ DOMAIN portPidMap = LocalPorts(ptSnap.conns)
    /\ \A port \in DOMAIN portPidMap :
          Socket(port, portPidMap[port]) \in Range(ptSnap.conns)
    /\ ~ptSnap.taken => portPidMap = <<>>

\* C32, in every step: no PID-to-name entry is removed or changed; the port
\* map changes only in the one assignment under the write lock, with no
\* reader inside, from the old map to the complete new one; a refresh whose
\* snapshot fails changes neither map; and a GetProcessName holding the read
\* lock reads one map, unchanged while it holds the lock.
C32_Step ==
    /\ \A pid \in DOMAIN pidNameMap :
          pid \in DOMAIN pidNameMap' /\ pidNameMap'[pid] = pidNameMap[pid]
    /\ portPidMap' # portPidMap =>
          /\ ptPc = "lock" /\ ptMu.readers = 0 /\ ptMu'.writer
          /\ DOMAIN portPidMap' = LocalPorts(ptNew.conns)
    /\ (nRefresh' # nRefresh /\ ptPc' = "idle") =>
          (portPidMap' = portPidMap /\ pidNameMap' = pidNameMap)
    /\ ptRpc = "rlocked" =>
          /\ portPidMap' = portPidMap
          /\ ptGot' # ptGot =>
                /\ ptGot'.read = portPidMap
                /\ ptGot'.name =
                      LookupName(portPidMap, pidNameMap, ptGot'.port)

\* C32: a successful refresh of the process tracker replaces the port map by
\* the ports of the latest snapshot, keeps every PID-to-name entry, a failed
\* refresh changes nothing, and a concurrent GetProcessName sees the old or
\* the new port map, never a partly rebuilt one.
C32_TrackerRefresh == []C32_State /\ [][C32_Step]_vars

\* After two refreshes port 1 of the first snapshot is gone from the port
\* map, the name found for its PID is still there, and a GetProcessName that
\* ran in between got that name from the old map.
C32_Witness ==
    /\ nRefresh = MaxRefresh
    /\ ptPc = "idle"
    /\ DOMAIN portPidMap = {2}
    /\ portPidMap[2] = 0
    /\ 1 \in DOMAIN pidNameMap
    /\ ptGot.port = 1
    /\ ptGot.name = pidNameMap[1]
    /\ 1 \in DOMAIN ptGot.read

====
